---- MODULE Spec2Model ----
(***************************************************************************)
(* A model of the evaluation engine of oatf-rs: the phase-trigger state    *)
(* machine (primitives.rs, evaluate_trigger) together with the primitives  *)
(* it is built on, and the attack-level verdict correlation (evaluate.rs,  *)
(* compute_verdict).                                                       *)
(*                                                                         *)
(* Conventions.                                                            *)
(*  - A Rust string is a sequence of one-character strings, so that the    *)
(*    code's scanning (find, split, strip_suffix) is modelled as written.  *)
(*  - Option<T> is the record None or Some(x).                             *)
(*  - A u64 is a canonical sequence of decimal digits (most significant    *)
(*    first): the counter and the durations keep their full 64-bit range.  *)
(*  - A serde_json Value is a record tagged by its kind k.                 *)
(***************************************************************************)
EXTENDS Integers, Sequences, FiniteSets, TLC

\* ------------------------------------------------------------------------
\* Option<T>
\* ------------------------------------------------------------------------
None == [some |-> FALSE]
Some(x) == [some |-> TRUE, v |-> x]
IsSome(o) == o.some
IsNone(o) == ~o.some

\* ------------------------------------------------------------------------
\* Strings as character sequences
\* ------------------------------------------------------------------------

\* str::find(c): the first index holding c, or 0 when there is none.
FindChar(s, c) ==
  IF \E i \in 1..Len(s) : s[i] = c
  THEN CHOOSE i \in 1..Len(s) : s[i] = c /\ \A j \in 1..(i - 1) : s[j] # c
  ELSE 0

\* str::split(c): the pieces between the occurrences of c (never empty).
RECURSIVE SplitOn(_, _)
SplitOn(s, c) ==
  LET i == FindChar(s, c)
  IN IF i = 0 THEN <<s>>
     ELSE <<SubSeq(s, 1, i - 1)>> \o SplitOn(SubSeq(s, i + 1, Len(s)), c)

\* str::starts_with / ends_with / contains on a substring.
StartsWith(s, p) == Len(p) <= Len(s) /\ SubSeq(s, 1, Len(p)) = p
EndsWith(s, p) == Len(p) <= Len(s) /\ SubSeq(s, Len(s) - Len(p) + 1, Len(s)) = p
Contains(s, p) ==
  \E i \in 0..(Len(s) - Len(p)) : SubSeq(s, i + 1, i + Len(p)) = p

\* ------------------------------------------------------------------------
\* u64 as decimal digits
\* ------------------------------------------------------------------------
Digits == 0..9

\* u64::MAX = 18446744073709551615
U64_MAX == <<1, 8, 4, 4, 6, 7, 4, 4, 0, 7, 3, 7, 0, 9, 5, 5, 1, 6, 1, 5>>

RECURSIVE StripZeros(_)
StripZeros(d) ==
  IF Len(d) > 1 /\ d[1] = 0 THEN StripZeros(Tail(d)) ELSE d

RECURSIVE BigFromNat(_)
BigFromNat(n) ==
  IF n < 10 THEN <<n>> ELSE Append(BigFromNat(n \div 10), n % 10)

\* a < b on canonical digit sequences: shorter is smaller, then the first
\* differing digit decides.
BigLt(a, b) ==
  \/ Len(a) < Len(b)
  \/ /\ Len(a) = Len(b)
     /\ \E i \in 1..Len(a) :
          /\ a[i] < b[i]
          /\ \A j \in 1..(i - 1) : a[j] = b[j]
BigLe(a, b) == a = b \/ BigLt(a, b)

\* a + 1, carried through the trailing nines.
RECURSIVE BigSucc(_)
BigSucc(a) ==
  IF Len(a) = 0 THEN <<1>>
  ELSE IF a[Len(a)] < 9 THEN [a EXCEPT ![Len(a)] = @ + 1]
  ELSE Append(BigSucc(SubSeq(a, 1, Len(a) - 1)), 0)

\* a - 1 for a > 0, borrowed through the trailing zeros.
RECURSIVE BigPredRaw(_)
BigPredRaw(a) ==
  IF a[Len(a)] > 0 THEN [a EXCEPT ![Len(a)] = @ - 1]
  ELSE Append(BigPredRaw(SubSeq(a, 1, Len(a) - 1)), 9)
BigPred(a) == StripZeros(BigPredRaw(a))

RECURSIVE BigMinusNat(_, _)
BigMinusNat(a, n) == IF n = 0 THEN a ELSE BigMinusNat(BigPred(a), n - 1)

\* `c as u64` for an i64 c: two's complement, 2^64 + c for a negative c.
I64AsU64(c) ==
  IF c >= 0 THEN BigFromNat(c) ELSE BigMinusNat(U64_MAX, (-c) - 1)

\* ------------------------------------------------------------------------
\* serde_json::Value
\* ------------------------------------------------------------------------
VNull == [k |-> "null"]
VBool(b) == [k |-> "bool", b |-> b]
\* A number has the numeric value hi * 2^53 + n, where hi is 0 or 1 and n is
\* small (n >= 0 when hi = 1), and records whether it is held as a float.
\* Integers are held exactly (serde_json's PosInt/NegInt); 2^53 is where f64
\* stops holding every integer.
VNum(n) == [k |-> "num", n |-> n, float |-> FALSE, hi |-> 0]
VFloat(n) == [k |-> "num", n |-> n, float |-> TRUE, hi |-> 0]
\* The integer 2^53 + n.
VBigInt(n) == [k |-> "num", n |-> n, float |-> FALSE, hi |-> 1]

\* An f64 with the value hi * 2^53 + n; with hi = 1 only even n exist.
F64(n) == [hi |-> 0, n |-> n]
F64Lt(a, b) == a.hi < b.hi \/ (a.hi = b.hi /\ a.n < b.n)
\* Mutant of F64Le: equality is left out.
F64Le_Strict(a, b) == F64Lt(a, b)
F64Le(a, b) == a = b \/ F64Lt(a, b)
F64Gt(a, b) == F64Lt(b, a)
F64Ge(a, b) == F64Le(b, a)

\* `n as f64` for an integer 2^53 + n, 0 <= n: the nearest even offset, a
\* tie going to the offset whose half is even (round to nearest, ties to
\* even on a 53-bit significand).
RoundTiesEven(n) ==
  IF n % 2 = 0 THEN n
  ELSE IF (n \div 2) % 2 = 0 THEN n - 1 ELSE n + 1

\* Number::as_f64: exact below 2^53, rounded from there on.
NumberAsF64(v) ==
  IF v.hi = 0 THEN [hi |-> 0, n |-> v.n]
  ELSE [hi |-> 1, n |-> IF v.float THEN v.n ELSE RoundTiesEven(v.n)]
VStr(s) == [k |-> "str", s |-> s]
VArr(a) == [k |-> "arr", a |-> a]
\* An object is a function from its keys (strings) to values.
VObj(o) == [k |-> "obj", o |-> o]
EmptyMap == [x \in {} |-> VNull]

\* Value::as_str, Value::as_f64, Value::as_object.
as_str(v) == IF v.k = "str" THEN Some(v.s) ELSE None
as_f64(v) == IF v.k = "num" THEN Some(NumberAsF64(v)) ELSE None
as_object(v) == IF v.k = "obj" THEN Some(v.o) ELSE None

\* resolve_simple_path: the walk over the segments of a non-empty path.
RECURSIVE WalkSegments(_, _)
WalkSegments(segs, current) ==
  IF segs = << >> THEN Some(current)
  ELSE IF current.k # "obj" THEN None
  ELSE IF Head(segs) \notin DOMAIN current.o THEN None
  ELSE WalkSegments(Tail(segs), current.o[Head(segs)])

\* Mutant of resolve_simple_path: the walk goes on past a segment that is
\* not found.
RECURSIVE WalkSegments_SkipMissing(_, _)
WalkSegments_SkipMissing(segs, current) ==
  IF segs = << >> THEN Some(current)
  ELSE IF current.k # "obj" THEN None
  ELSE IF Head(segs) \notin DOMAIN current.o
  THEN WalkSegments_SkipMissing(Tail(segs), current)
  ELSE WalkSegments_SkipMissing(Tail(segs), current.o[Head(segs)])

resolve_simple_path_SkipMissing(path, value) ==
  IF path = << >> THEN Some(value)
  ELSE WalkSegments_SkipMissing(SplitOn(path, "."), value)

resolve_simple_path(path, value) ==
  IF path = << >> THEN Some(value)
  ELSE WalkSegments(SplitOn(path, "."), value)

\* Value::as_array.
as_array(v) == IF v.k = "arr" THEN Some(v.a) ELSE None

\* val.as_object().and_then(|o| o.get(name))
GetField(val, name) ==
  IF val.k = "obj" /\ name \in DOMAIN val.o THEN Some(val.o[name]) ELSE None

\* WildcardSegment { name, wildcard }
WildcardSegment(name, wildcard) == [name |-> name, wildcard |-> wildcard]

\* split_wildcard_segments: the scan over the characters of the path, at
\* (1-based) position i, with the name read so far and the segments made so
\* far. The result is None for a path that is not well formed.
RECURSIVE SplitWildcardScan(_, _, _, _)
SplitWildcardScan(chars, i, current, segments) ==
  IF i > Len(chars)
  THEN Some(IF current # << >>
            THEN Append(segments, WildcardSegment(current, FALSE))
            ELSE segments)
  ELSE IF chars[i] = "."
  THEN IF current = << >> /\ segments = << >> THEN None
       ELSE SplitWildcardScan(
              chars, i + 1, << >>,
              IF current # << >>
              THEN Append(segments, WildcardSegment(current, FALSE))
              ELSE segments)
  ELSE IF chars[i] = "["
  THEN IF i + 2 <= Len(chars) /\ chars[i + 1] = "*" /\ chars[i + 2] = "]"
       THEN IF i + 3 <= Len(chars)
            THEN IF chars[i + 3] = "."
                 THEN SplitWildcardScan(
                        chars, i + 4, << >>,
                        Append(segments, WildcardSegment(current, TRUE)))
                 ELSE None
            ELSE SplitWildcardScan(
                   chars, i + 3, << >>,
                   Append(segments, WildcardSegment(current, TRUE)))
       ELSE None
  ELSE SplitWildcardScan(chars, i + 1, Append(current, chars[i]), segments)

split_wildcard_segments(path) == SplitWildcardScan(path, 1, << >>, << >>)

\* What one value of the working set contributes to the next working set.
SegmentOfValue(seg, val) ==
  IF seg.wildcard
  THEN LET target == IF seg.name = << >> THEN Some(val)
                     ELSE GetField(val, seg.name)
       IN IF IsSome(target) /\ IsSome(as_array(target.v))
          THEN as_array(target.v).v ELSE << >>
  ELSE IF IsSome(GetField(val, seg.name))
  THEN <<GetField(val, seg.name).v>> ELSE << >>

\* Mutant of NextWorkingSet: the contributions are put together in reverse
\* working-set order.
RECURSIVE NextWorkingSet_Reversed(_, _)
NextWorkingSet_Reversed(seg, current) ==
  IF current = << >> THEN << >>
  ELSE NextWorkingSet_Reversed(seg, Tail(current))
       \o SegmentOfValue(seg, Head(current))

\* The inner loop: the next working set, in working-set order.
RECURSIVE NextWorkingSet(_, _)
NextWorkingSet(seg, current) ==
  IF current = << >> THEN << >>
  ELSE SegmentOfValue(seg, Head(current)) \o NextWorkingSet(seg, Tail(current))

\* The outer loop over the segments, left as soon as the working set is
\* empty.
RECURSIVE ResolveSegments(_, _)
ResolveSegments(segments, current) ==
  IF segments = << >> \/ current = << >> THEN current
  ELSE ResolveSegments(Tail(segments), NextWorkingSet(Head(segments), current))

resolve_wildcard_path(path, value) ==
  IF path = << >> THEN <<value>>
  ELSE LET segments == split_wildcard_segments(path)
       IN IF IsNone(segments) THEN << >>
          ELSE ResolveSegments(segments.v, <<value>>)

\* values_deep_equal: kinds must agree; numbers compare by their as_f64
\* values, arrays by length and position, objects by key set and per-key
\* value.
RECURSIVE values_deep_equal(_, _)
values_deep_equal(a, b) ==
  IF a.k # b.k THEN FALSE
  ELSE CASE a.k = "null" -> TRUE
         [] a.k = "bool" -> a.b = b.b
         [] a.k = "num" -> NumberAsF64(a) = NumberAsF64(b)
         [] a.k = "str" -> a.s = b.s
         [] a.k = "arr" ->
              /\ Len(a.a) = Len(b.a)
              /\ \A i \in 1..Len(a.a) : values_deep_equal(a.a[i], b.a[i])
         [] a.k = "obj" ->
              /\ Cardinality(DOMAIN a.o) = Cardinality(DOMAIN b.o)
              /\ \A key \in DOMAIN a.o :
                   /\ key \in DOMAIN b.o
                   /\ values_deep_equal(a.o[key], b.o[key])

\* Regex::new on the patterns of the model: literal characters, or a pattern
\* with an unclosed group "(", which the regex crate rejects.
RegexCompiles(pattern) == \A i \in 1..Len(pattern) : pattern[i] # "("
\* Regex::is_match of a literal pattern: an unanchored substring search.
RegexIsMatch(pattern, s) == Contains(s, pattern)

\* A MatchCondition with no operator present.
NoOperators ==
  [contains |-> None, starts_with |-> None, ends_with |-> None,
   regex |-> None, any_of |-> None, gt |-> None, lt |-> None,
   gte |-> None, lte |-> None, exists |-> None]

\* Mutant of evaluate_match_condition: a numeric comparison is passed by a
\* subject that is not a number.
evaluate_match_condition_LenientNumbers(cond, value) ==
  /\ IsSome(cond.contains) =>
       IsSome(as_str(value)) /\ Contains(as_str(value).v, cond.contains.v)
  /\ IsSome(cond.starts_with) =>
       IsSome(as_str(value)) /\ StartsWith(as_str(value).v, cond.starts_with.v)
  /\ IsSome(cond.ends_with) =>
       IsSome(as_str(value)) /\ EndsWith(as_str(value).v, cond.ends_with.v)
  /\ IsSome(cond.regex) =>
       /\ IsSome(as_str(value))
       /\ RegexCompiles(cond.regex.v)
       /\ RegexIsMatch(cond.regex.v, as_str(value).v)
  /\ IsSome(cond.any_of) =>
       \E i \in 1..Len(cond.any_of.v) : values_deep_equal(value, cond.any_of.v[i])
  /\ (IsSome(cond.gt) /\ IsSome(as_f64(value))) => F64Gt(as_f64(value).v, cond.gt.v)
  /\ (IsSome(cond.lt) /\ IsSome(as_f64(value))) => F64Lt(as_f64(value).v, cond.lt.v)
  /\ (IsSome(cond.gte) /\ IsSome(as_f64(value))) => F64Ge(as_f64(value).v, cond.gte.v)
  /\ (IsSome(cond.lte) /\ IsSome(as_f64(value))) => F64Le(as_f64(value).v, cond.lte.v)

\* evaluate_match_condition: every present operator must pass; exists is
\* not looked at.
evaluate_match_condition(cond, value) ==
  /\ IsSome(cond.contains) =>
       IsSome(as_str(value)) /\ Contains(as_str(value).v, cond.contains.v)
  /\ IsSome(cond.starts_with) =>
       IsSome(as_str(value)) /\ StartsWith(as_str(value).v, cond.starts_with.v)
  /\ IsSome(cond.ends_with) =>
       IsSome(as_str(value)) /\ EndsWith(as_str(value).v, cond.ends_with.v)
  /\ IsSome(cond.regex) =>
       /\ IsSome(as_str(value))
       /\ RegexCompiles(cond.regex.v)
       /\ RegexIsMatch(cond.regex.v, as_str(value).v)
  /\ IsSome(cond.any_of) =>
       \E i \in 1..Len(cond.any_of.v) : values_deep_equal(value, cond.any_of.v[i])
  /\ IsSome(cond.gt) => IsSome(as_f64(value)) /\ F64Gt(as_f64(value).v, cond.gt.v)
  /\ IsSome(cond.lt) => IsSome(as_f64(value)) /\ F64Lt(as_f64(value).v, cond.lt.v)
  /\ IsSome(cond.gte) => IsSome(as_f64(value)) /\ F64Ge(as_f64(value).v, cond.gte.v)
  /\ IsSome(cond.lte) => IsSome(as_f64(value)) /\ F64Le(as_f64(value).v, cond.lte.v)

evaluate_match_condition_excluding_exists(cond, value) ==
  evaluate_match_condition([cond EXCEPT !.exists = None], value)

\* MatchEntry::Scalar / MatchEntry::Condition
Scalar(v) == [entry |-> "scalar", value |-> v]
Condition(c) == [entry |-> "condition", cond |-> c]

\* Mutant of EntryPasses: under exists: false the other operators are not
\* looked at.
EntryPasses_ExistsFalseAlone(path, e, value) ==
  LET resolved == resolve_simple_path(path, value)
  IN IF e.entry = "scalar"
     THEN IsSome(resolved) /\ values_deep_equal(resolved.v, e.value)
     ELSE IF e.cond.exists = Some(FALSE) THEN IsNone(resolved)
     ELSE IF e.cond.exists = Some(TRUE)
     THEN /\ IsSome(resolved)
          /\ evaluate_match_condition_excluding_exists(e.cond, resolved.v)
     ELSE /\ IsSome(resolved)
          /\ evaluate_match_condition(e.cond, resolved.v)

\* One (path, entry) pair of evaluate_predicate.
EntryPasses(path, e, value) ==
  LET resolved == resolve_simple_path(path, value)
  IN IF e.entry = "scalar"
     THEN IsSome(resolved) /\ values_deep_equal(resolved.v, e.value)
     ELSE LET cond == e.cond
              has_other_ops ==
                \/ IsSome(cond.contains) \/ IsSome(cond.starts_with)
                \/ IsSome(cond.ends_with) \/ IsSome(cond.regex)
                \/ IsSome(cond.any_of) \/ IsSome(cond.gt) \/ IsSome(cond.lt)
                \/ IsSome(cond.gte) \/ IsSome(cond.lte)
          IN IF cond.exists = Some(FALSE)
             THEN IsNone(resolved) /\ ~has_other_ops
             ELSE IF cond.exists = Some(TRUE)
             THEN /\ IsSome(resolved)
                  /\ evaluate_match_condition_excluding_exists(cond, resolved.v)
             ELSE /\ IsSome(resolved)
                  /\ evaluate_match_condition(cond, resolved.v)

\* evaluate_predicate: a predicate is a map path -> entry; all entries must
\* pass, and the empty predicate is true.
evaluate_predicate(predicate, value) ==
  \A path \in DOMAIN predicate : EntryPasses(path, predicate[path], value)

\* ------------------------------------------------------------------------
\* parse_duration
\* ------------------------------------------------------------------------
Ok(x) == [ok |-> TRUE, v |-> x]
Err == [ok |-> FALSE]

DigitChars == <<"0", "1", "2", "3", "4", "5", "6", "7", "8", "9">>
IsDigitChar(c) == \E i \in 1..Len(DigitChars) : DigitChars[i] = c
DigitOf(c) == (CHOOSE i \in 1..Len(DigitChars) : DigitChars[i] = c) - 1

\* Multiply a digit sequence by a small factor, least significant digit first.
RECURSIVE BigMulAcc(_, _, _)
BigMulAcc(a, factor, carry) ==
  IF a = << >> THEN (IF carry = 0 THEN << >> ELSE BigFromNat(carry))
  ELSE LET t == a[Len(a)] * factor + carry
       IN Append(BigMulAcc(SubSeq(a, 1, Len(a) - 1), factor, t \div 10), t % 10)
BigMul(a, factor) == StripZeros(BigMulAcc(a, factor, 0))

RECURSIVE BigAddAcc(_, _, _)
BigAddAcc(a, b, carry) ==
  IF a = << >> /\ b = << >> THEN (IF carry = 0 THEN << >> ELSE <<carry>>)
  ELSE LET da == IF a = << >> THEN 0 ELSE a[Len(a)]
           db == IF b = << >> THEN 0 ELSE b[Len(b)]
           ra == IF a = << >> THEN << >> ELSE SubSeq(a, 1, Len(a) - 1)
           rb == IF b = << >> THEN << >> ELSE SubSeq(b, 1, Len(b) - 1)
           t == da + db + carry
       IN Append(BigAddAcc(ra, rb, t \div 10), t % 10)
BigAdd(a, b) == StripZeros(BigAddAcc(a, b, 0))

\* u64::checked_mul, u64::checked_add: None on overflow.
\* Mutant of checked_mul: the product is returned whether it fits or not.
checked_mul_Unchecked(n, factor) == Some(BigMul(n, factor))

checked_mul(n, factor) ==
  LET p == BigMul(n, factor) IN IF BigLt(U64_MAX, p) THEN None ELSE Some(p)
checked_add(a, b) ==
  LET s == BigAdd(a, b) IN IF BigLt(U64_MAX, s) THEN None ELSE Some(s)

\* str::parse::<u64>: an optional leading '+', then one or more decimal
\* digits whose value fits 64 bits.
ParseU64(s) ==
  LET body == IF s # << >> /\ s[1] = "+" THEN Tail(s) ELSE s
  IN IF body = << >> THEN Err
     ELSE IF \E i \in 1..Len(body) : ~IsDigitChar(body[i]) THEN Err
     ELSE LET d == StripZeros([i \in 1..Len(body) |-> DigitOf(body[i])])
          IN IF BigLt(U64_MAX, d) THEN Err ELSE Ok(d)

\* Duration::from_secs
from_secs(secs) == [secs |-> secs, nanos |-> 0]

\* Duration's ordering: by seconds, then by nanoseconds.
DurationGe(a, b) ==
  \/ BigLt(b.secs, a.secs)
  \/ a.secs = b.secs /\ a.nanos >= b.nanos

parse_shorthand_duration(input) ==
  IF Len(input) < 2 THEN Err
  ELSE LET num_str == SubSeq(input, 1, Len(input) - 1)
           unit == input[Len(input)]
           n == ParseU64(num_str)
       IN IF ~n.ok THEN Err
          ELSE LET secs == CASE unit = "s" -> Some(n.v)
                             [] unit = "m" -> checked_mul(n.v, 60)
                             [] unit = "h" -> checked_mul(n.v, 3600)
                             [] unit = "d" -> checked_mul(n.v, 86400)
                             [] OTHER -> None
               IN IF unit \notin {"s", "m", "h", "d"} THEN Err
                  ELSE IF IsNone(secs) THEN Err
                  ELSE Ok(from_secs(secs.v))

\* One designator of the time part of an ISO duration: when `remaining`
\* holds the designator, the text before it is the count, which is scaled,
\* added to the total, and consumed together with the designator.
\* Mutant of IsoComponent: the component replaces the total instead of
\* being added to it.
IsoComponent_Overwrites(st, designator, factor) ==
  IF ~st.ok THEN st
  ELSE LET pos == FindChar(st.remaining, designator)
       IN IF pos = 0 THEN st
          ELSE LET n == ParseU64(SubSeq(st.remaining, 1, pos - 1))
                   scaled == IF n.ok THEN checked_mul(n.v, factor) ELSE None
               IN IF IsNone(scaled)
                  THEN [ok |-> FALSE, total |-> st.total, remaining |-> << >>]
                  ELSE [ok |-> TRUE, total |-> scaled.v,
                        remaining |-> SubSeq(st.remaining, pos + 1,
                                             Len(st.remaining))]

IsoComponent(st, designator, factor) ==
  IF ~st.ok THEN st
  ELSE LET pos == FindChar(st.remaining, designator)
       IN IF pos = 0 THEN st
          ELSE LET n == ParseU64(SubSeq(st.remaining, 1, pos - 1))
                   scaled == IF n.ok THEN checked_mul(n.v, factor) ELSE None
                   sum == IF IsSome(scaled)
                          THEN checked_add(st.total, scaled.v) ELSE None
               IN IF IsNone(sum)
                  THEN [ok |-> FALSE, total |-> st.total, remaining |-> << >>]
                  ELSE [ok |-> TRUE, total |-> sum.v,
                        remaining |-> SubSeq(st.remaining, pos + 1,
                                             Len(st.remaining))]

parse_iso_duration(input) ==
  LET rest == Tail(input)
      t_pos == FindChar(rest, "T")
      date_part == IF t_pos = 0 THEN rest ELSE SubSeq(rest, 1, t_pos - 1)
      time_part == IF t_pos = 0 THEN None
                   ELSE Some(SubSeq(rest, t_pos + 1, Len(rest)))
      \* the date component: only D is supported
      date ==
        IF date_part = << >> THEN Ok(<<0>>)
        ELSE IF date_part[Len(date_part)] # "D" THEN Err
        ELSE LET n == ParseU64(SubSeq(date_part, 1, Len(date_part) - 1))
                 scaled == IF n.ok THEN checked_mul(n.v, 86400) ELSE None
                 sum == IF IsSome(scaled) THEN checked_add(<<0>>, scaled.v)
                        ELSE None
             IN IF IsNone(sum) THEN Err ELSE Ok(sum.v)
      \* the time components, in the order H, M, S
      time ==
        IF IsNone(time_part)
        THEN [ok |-> TRUE, total |-> date.v, remaining |-> << >>]
        ELSE IF time_part.v = << >>
        THEN [ok |-> FALSE, total |-> date.v, remaining |-> << >>]
        ELSE LET start == [ok |-> TRUE, total |-> date.v,
                           remaining |-> time_part.v]
                 hours == IsoComponent(start, "H", 3600)
                 minutes == IsoComponent(hours, "M", 60)
             IN IsoComponent(minutes, "S", 1)
  IN IF ~date.ok THEN Err
     ELSE IF ~time.ok THEN Err
     ELSE IF time.remaining # << >> THEN Err
     ELSE IF date_part = << >> /\ IsNone(time_part) THEN Err
     ELSE Ok(from_secs(time.total))

parse_duration(input) ==
  IF input = << >> THEN Err
  ELSE IF input[1] = "P" THEN parse_iso_duration(input)
  ELSE parse_shorthand_duration(input)

\* ------------------------------------------------------------------------
\* evaluate_trigger
\* ------------------------------------------------------------------------

\* TriggerResult
NotAdvanced == [tag |-> "NotAdvanced", reason |-> "-"]
Advanced(reason) == [tag |-> "Advanced", reason |-> reason]
\* No TriggerResult: the call panicked instead of returning.
NoResult == [tag |-> "Panic", reason |-> "attempt to add with overflow"]

\* parse_event_qualifier: split on the first ':'.
parse_event_qualifier(event_string) ==
  LET pos == FindChar(event_string, ":")
  IN IF pos = 0 THEN [base |-> event_string, qualifier |-> None]
     ELSE [base |-> SubSeq(event_string, 1, pos - 1),
           qualifier |-> Some(SubSeq(event_string, pos + 1, Len(event_string)))]

\* The qualifier registry: for a (protocol, base event) it knows, the content
\* field that carries the qualifier.
QualifierRegistry ==
  {[protocol |-> "mcp", base_event |-> <<"c">>, field |-> <<"k">>]}

\* resolve_event_qualifier(protocol, base_event, content): the registry's
\* answer for an event that carries no qualifier of its own.
resolve_event_qualifier(protocol, base_event, content) ==
  IF \E r \in QualifierRegistry :
       r.protocol = protocol /\ r.base_event = base_event
  THEN LET r == CHOOSE r \in QualifierRegistry :
                  r.protocol = protocol /\ r.base_event = base_event
           found == resolve_simple_path(r.field, content)
       IN IF IsSome(found) /\ found.v.k = "str" THEN Some(found.v.s) ELSE None
  ELSE None

\* Duration's strict ordering.
DurationGt(a, b) ==
  \/ BigLt(b.secs, a.secs)
  \/ a.secs = b.secs /\ a.nanos > b.nanos

\* Mutant of TimeoutFires: the timeout fires only once elapsed exceeds it.
TimeoutFires_Strict(trigger, elapsed) ==
  /\ IsSome(trigger.after)
  /\ LET timeout == parse_duration(trigger.after.v)
     IN timeout.ok /\ DurationGt(elapsed, timeout.v)

\* Mutant of TimeoutFires: an `after` that does not parse fires at once.
TimeoutFires_FailOpen(trigger, elapsed) ==
  /\ IsSome(trigger.after)
  /\ LET timeout == parse_duration(trigger.after.v)
     IN ~timeout.ok \/ DurationGe(elapsed, timeout.v)

\* Step 1: `after` is set, parses, and elapsed >= the timeout.
TimeoutFires(trigger, elapsed) ==
  /\ IsSome(trigger.after)
  /\ LET timeout == parse_duration(trigger.after.v)
     IN timeout.ok /\ DurationGe(elapsed, timeout.v)

\* Mutant of ResolvedQualifier: the registry is asked first, and the event's
\* own qualifier is only the fallback.
ResolvedQualifier_RegistryFirst(ev, protocol, event_base) ==
  IF IsSome(resolve_event_qualifier(protocol, event_base, ev.content))
  THEN resolve_event_qualifier(protocol, event_base, ev.content)
  ELSE ev.qualifier

\* Step 3: ev.qualifier, or else the registry's resolution of the content.
ResolvedQualifier(ev, protocol, event_base) ==
  IF IsSome(ev.qualifier) THEN ev.qualifier
  ELSE resolve_event_qualifier(protocol, event_base, ev.content)

\* Step 3: the resolved qualifier must be present and equal the trigger's.
QualifierAccepted(tq, resolved) == IsSome(resolved) /\ resolved.v = tq

\* Mutant of PredicateAccepted: the match predicate is never evaluated.
PredicateAccepted_Ignored(trigger, ev) == TRUE

\* Step 4: the match predicate, when present, passes on the event content.
PredicateAccepted(trigger, ev) ==
  IsSome(trigger.match_predicate) =>
    evaluate_predicate(trigger.match_predicate.v, ev.content)

\* Step 5: `state.event_count += 1` on a u64. At u64::MAX the addition
\* overflows: a build with overflow checks panics (the call does not
\* return and the count is not written), a build without them wraps to 0.
IncrementOutcomes(event_count) ==
  IF event_count = U64_MAX
  THEN {[panicked |-> TRUE, event_count |-> event_count],
        [panicked |-> FALSE, event_count |-> <<0>>]}
  ELSE {[panicked |-> FALSE, event_count |-> BigSucc(event_count)]}

\* Step 5: required_count = trigger.count.unwrap_or(1) as u64.
RequiredCount(trigger) ==
  I64AsU64(IF IsSome(trigger.count) THEN trigger.count.v ELSE 1)

\* Step 5: state.event_count >= required_count
ThresholdReached(event_count, required_count) ==
  BigLe(required_count, event_count)

\* One outcome of a call: whether it panicked, the result it returned, and
\* the state it left.
Outcome(panicked, result, event_count) ==
  [panicked |-> panicked, result |-> result,
   state |-> [event_count |-> event_count]]

\* evaluate_trigger(trigger, event, elapsed, &mut state, protocol): the set
\* of outcomes the call can have.
evaluate_trigger(trigger, event, elapsed, state, protocol) ==
  IF TimeoutFires(trigger, elapsed)
  THEN {Outcome(FALSE, Advanced("Timeout"), state.event_count)}
  ELSE IF IsSome(trigger.event) /\ IsSome(event)
  THEN LET ev == event.v
           t == parse_event_qualifier(trigger.event.v)
           event_base == parse_event_qualifier(ev.event_type).base
       IN IF t.base # event_base
          THEN {Outcome(FALSE, NotAdvanced, state.event_count)}
          ELSE IF /\ IsSome(t.qualifier)
                  /\ ~QualifierAccepted(t.qualifier.v,
                        ResolvedQualifier(ev, protocol, event_base))
          THEN {Outcome(FALSE, NotAdvanced, state.event_count)}
          ELSE IF ~PredicateAccepted(trigger, ev)
          THEN {Outcome(FALSE, NotAdvanced, state.event_count)}
          ELSE {IF inc.panicked
                THEN Outcome(TRUE, NoResult, inc.event_count)
                ELSE IF ThresholdReached(inc.event_count, RequiredCount(trigger))
                THEN Outcome(FALSE, Advanced("EventMatched"), inc.event_count)
                ELSE Outcome(FALSE, NotAdvanced, inc.event_count)
                : inc \in IncrementOutcomes(state.event_count)}
  ELSE {Outcome(FALSE, NotAdvanced, state.event_count)}

\* ------------------------------------------------------------------------
\* evaluate_condition, evaluate_pattern, evaluate_expression,
\* evaluate_semantic, evaluate_indicator
\* ------------------------------------------------------------------------

\* Condition::Equality / Condition::Operators
Equality(expected) == [cond |-> "equality", expected |-> expected]
Operators(c) == [cond |-> "operators", ops |-> c]

evaluate_condition(condition, value) ==
  IF condition.cond = "equality"
  THEN values_deep_equal(value, condition.expected)
  ELSE evaluate_match_condition(condition.ops, value)

\* Err(EvaluationError { message, .. })
ErrMsg(message) == [ok |-> FALSE, message |-> message]

\* Mutant of evaluate_pattern: the condition must pass for every resolved
\* value.
evaluate_pattern_EveryValue(pattern, message) ==
  LET target == IF IsSome(pattern.target) THEN pattern.target.v ELSE << >>
  IN IF IsNone(pattern.condition) THEN Ok(FALSE)
     ELSE LET resolved == resolve_wildcard_path(target, message)
          IN IF resolved = << >> THEN Ok(FALSE)
             ELSE Ok(\A i \in 1..Len(resolved) :
                       evaluate_condition(pattern.condition.v, resolved[i]))

\* evaluate_pattern: Ok(true) iff the condition passes for a resolved value.
evaluate_pattern(pattern, message) ==
  LET target == IF IsSome(pattern.target) THEN pattern.target.v ELSE << >>
  IN IF IsNone(pattern.condition) THEN Ok(FALSE)
     ELSE LET resolved == resolve_wildcard_path(target, message)
          IN IF resolved = << >> THEN Ok(FALSE)
             ELSE Ok(\E i \in 1..Len(resolved) :
                       evaluate_condition(pattern.condition.v, resolved[i]))

\* Decimal rendering of integers.
RECURSIVE DigitsToChars(_)
DigitsToChars(d) ==
  IF d = << >> THEN << >> ELSE <<DigitChars[Head(d) + 1]>> \o DigitsToChars(Tail(d))
IntToChars(n) ==
  IF n < 0 THEN <<"-">> \o DigitsToChars(BigFromNat(-n))
  ELSE DigitsToChars(BigFromNat(n))

\* 2^53 = 9007199254740992
TWO_53 == <<9, 0, 0, 7, 1, 9, 9, 2, 5, 4, 7, 4, 0, 9, 9, 2>>

\* Number::to_string: an integer in decimal, a float with its fraction.
NumberToString(v) ==
  (IF v.hi = 0 THEN IntToChars(v.n)
   ELSE DigitsToChars(BigAdd(TWO_53, BigFromNat(v.n))))
  \o (IF v.float THEN <<".", "0">> ELSE << >>)

\* serde_json::to_string. The strings of the model need no escaping, and
\* the objects of the model that are rendered have at most one key, so that
\* the key order of the map does not show.
RECURSIVE to_string(_)
RECURSIVE JoinValues(_)
JoinValues(a) ==
  IF a = << >> THEN << >>
  ELSE to_string(Head(a))
       \o (IF Tail(a) = << >> THEN << >> ELSE <<",">> \o JoinValues(Tail(a)))
to_string(v) ==
  CASE v.k = "null" -> <<"n", "u", "l", "l">>
    [] v.k = "bool" -> IF v.b THEN <<"t", "r", "u", "e">>
                       ELSE <<"f", "a", "l", "s", "e">>
    [] v.k = "num" -> NumberToString(v)
    [] v.k = "str" -> <<"\"">> \o v.s \o <<"\"">>
    [] v.k = "arr" -> <<"[">> \o JoinValues(v.a) \o <<"]">>
    [] v.k = "obj" ->
         IF DOMAIN v.o = {} THEN <<"{", "}">>
         ELSE LET key == CHOOSE x \in DOMAIN v.o : TRUE
              IN <<"{", "\"">> \o key \o <<"\"", ":">> \o to_string(v.o[key])
                 \o <<"}">>

\* value_to_text: a string as it is, everything else as JSON text.
value_to_text(value) ==
  IF value.k = "str" THEN value.s ELSE to_string(value)

\* The key of the `message` binding of a CEL context.
MessageKey == <<"m", "e", "s", "s", "a", "g", "e">>

\* The context evaluate_expression builds: `message`, then one insert per
\* declared variable, a later insert under the same key replacing an
\* earlier one.
ExpressionContext(expression, message) ==
  LET vars == IF IsSome(expression.variables) THEN expression.variables.v
              ELSE EmptyMap
      resolved(name) ==
        LET r == resolve_simple_path(vars[name], message)
        IN IF IsSome(r) THEN r.v ELSE VNull
  IN VObj([name \in {MessageKey} \cup DOMAIN vars |->
             IF name \in DOMAIN vars THEN resolved(name) ELSE message])

\* CelEvaluator::evaluate. Two evaluators: the default one on an expression
\* that is one identifier (the value bound to it; false for an undeclared
\* reference), and one that fails on every expression.
CelDefault == [kind |-> "default"]
CelFailing == [kind |-> "failing"]
CelFailure == <<"CEL execution error">>
cel_evaluate(evaluator, cel, context) ==
  IF evaluator.kind = "failing" THEN ErrMsg(CelFailure)
  ELSE IF cel \in DOMAIN context.o THEN Ok(context.o[cel])
  ELSE Ok(VBool(FALSE))

\* The message of the type error: a fixed text, then the result as JSON.
NonBooleanMessage(result) ==
  <<"CEL expression returned non-boolean result: ">> \o to_string(result)

evaluate_expression(expression, message, cel_evaluator) ==
  LET result ==
        cel_evaluate(cel_evaluator, expression.cel,
                     ExpressionContext(expression, message))
  IN IF ~result.ok THEN result
     ELSE IF result.v.k = "bool" THEN Ok(result.v.b)
     ELSE ErrMsg(NonBooleanMessage(result.v))

\* IndicatorVerdict { indicator_id, result, evidence, .. }
Verdict(indicator_id, result, evidence) ==
  [indicator_id |-> indicator_id, result |-> result, timestamp |-> None,
   evidence |-> evidence, source |-> None]

\* Scores and thresholds are f64 in hundredths: 70 is 0.7.
DefaultThreshold == 70

\* format!("{:.2}", score)
FormatScore(score) ==
  IntToChars(score \div 100)
  \o <<".", DigitChars[((score % 100) \div 10) + 1], DigitChars[(score % 10) + 1]>>

\* One call of SemanticEvaluator::evaluate, as the evaluator sees it.
SemanticCall(semantic, text) ==
  [text |-> text, intent |-> semantic.intent,
   intent_class |-> semantic.intent_class, threshold |-> semantic.threshold,
   examples |-> semantic.examples]

\* SemanticEvaluator::evaluate: an evaluator is a table from some texts to
\* Ok(score) or Err, and what it returns on every other text.
semantic_evaluate(evaluator, call) ==
  IF call.text \in DOMAIN evaluator.table THEN evaluator.table[call.text]
  ELSE evaluator.other

\* The loop of evaluate_semantic over the resolved values: the calls made,
\* the highest score seen, and the error that ended the loop, if any.
RECURSIVE SemanticLoop(_, _, _, _, _)
SemanticLoop(semantic, resolved, evaluator, highest_score, calls) ==
  IF resolved = << >>
  THEN [error |-> None, highest_score |-> highest_score, calls |-> calls]
  ELSE LET call == SemanticCall(semantic, value_to_text(Head(resolved)))
           out == semantic_evaluate(evaluator, call)
       IN IF ~out.ok
          THEN [error |-> Some(out.message), highest_score |-> highest_score,
                calls |-> Append(calls, call)]
          ELSE SemanticLoop(semantic, Tail(resolved), evaluator,
                            IF out.v > highest_score THEN out.v
                            ELSE highest_score,
                            Append(calls, call))

\* Mutant of ScoreReaches: the score must exceed the threshold.
ScoreReaches_Strict(highest_score, threshold) == highest_score > threshold

\* highest_score >= threshold
ScoreReaches(highest_score, threshold) == highest_score >= threshold

\* The values evaluate_semantic resolves from its target.
SemanticResolved(semantic, message) ==
  resolve_wildcard_path(
    IF IsSome(semantic.target) THEN semantic.target.v ELSE << >>, message)

evaluate_semantic(semantic, message, evaluator, indicator_id) ==
  LET resolved == SemanticResolved(semantic, message)
      threshold == IF IsSome(semantic.threshold) THEN semantic.threshold.v
                   ELSE DefaultThreshold
      loop == SemanticLoop(semantic, resolved, evaluator, 0, << >>)
  IN IF resolved = << >> THEN Verdict(indicator_id, "not_matched", None)
     ELSE IF IsSome(loop.error)
     THEN Verdict(indicator_id, "error", Some(loop.error.v))
     ELSE IF ScoreReaches(loop.highest_score, threshold)
     THEN Verdict(indicator_id, "matched", Some(FormatScore(loop.highest_score)))
     ELSE Verdict(indicator_id, "not_matched",
                  Some(FormatScore(loop.highest_score)))

\* Ok(true) / Ok(false) / Err(e) as a verdict.
VerdictOfResult(indicator_id, r) ==
  IF ~r.ok THEN Verdict(indicator_id, "error", Some(r.message))
  ELSE IF r.v THEN Verdict(indicator_id, "matched", None)
  ELSE Verdict(indicator_id, "not_matched", None)

\* Mutant of DetectionKey: the expression is looked at before the pattern.
DetectionKey_ExpressionFirst(indicator) ==
  IF IsSome(indicator.expression) THEN "expression"
  ELSE IF IsSome(indicator.pattern) THEN "pattern"
  ELSE IF IsSome(indicator.semantic) THEN "semantic"
  ELSE "none"

\* Which detection key evaluate_indicator dispatches on.
DetectionKey(indicator) ==
  IF IsSome(indicator.pattern) THEN "pattern"
  ELSE IF IsSome(indicator.expression) THEN "expression"
  ELSE IF IsSome(indicator.semantic) THEN "semantic"
  ELSE "none"

evaluate_indicator(indicator, message, cel_evaluator, semantic_evaluator) ==
  LET indicator_id == IF IsSome(indicator.id) THEN indicator.id.v ELSE ""
  IN CASE DetectionKey(indicator) = "pattern" ->
            VerdictOfResult(indicator_id,
                            evaluate_pattern(indicator.pattern.v, message))
       [] DetectionKey(indicator) = "expression" ->
            IF IsNone(cel_evaluator)
            THEN Verdict(indicator_id, "skipped",
                         Some("CEL evaluator not available"))
            ELSE VerdictOfResult(
                   indicator_id,
                   evaluate_expression(indicator.expression.v, message,
                                       cel_evaluator.v))
       [] DetectionKey(indicator) = "semantic" ->
            IF IsNone(semantic_evaluator)
            THEN Verdict(indicator_id, "skipped",
                         Some("Semantic evaluator not available"))
            ELSE evaluate_semantic(indicator.semantic.v, message,
                                   semantic_evaluator.v, indicator_id)
       [] OTHER ->
            Verdict(indicator_id, "error",
                    Some("No detection key (pattern/expression/semantic) present"))

\* The calls evaluate_indicator makes on the evaluators it was handed: the
\* contexts given to the CEL evaluator, the calls of the semantic one.
EvaluatorCalls(indicator, message, cel_evaluator, semantic_evaluator) ==
  [cel |->
     IF DetectionKey(indicator) = "expression" /\ IsSome(cel_evaluator)
     THEN <<ExpressionContext(indicator.expression.v, message)>> ELSE << >>,
   semantic |->
     IF DetectionKey(indicator) = "semantic" /\ IsSome(semantic_evaluator)
     THEN SemanticLoop(indicator.semantic.v,
                       SemanticResolved(indicator.semantic.v, message),
                       semantic_evaluator.v, 0, << >>).calls
     ELSE << >>]

\* ------------------------------------------------------------------------
\* compute_verdict
\* ------------------------------------------------------------------------

\* indicator.id.as_deref().unwrap_or("")
IndicatorKey(indicator) == IF IsSome(indicator.id) THEN indicator.id.v ELSE ""

\* The verdict collected for a declared indicator: the map's entry for its
\* id, or a synthetic skipped verdict when the map has none.
CollectedVerdict(indicator, verdicts) ==
  IF IndicatorKey(indicator) \in DOMAIN verdicts
  THEN verdicts[IndicatorKey(indicator)]
  ELSE [indicator_id |-> IndicatorKey(indicator), result |-> "skipped",
        timestamp |-> None,
        evidence |-> Some("No evaluation result provided"), source |-> None]

\* The counters and the collected list before the loop.
EmptyTally ==
  [matched |-> 0, not_matched |-> 0, error |-> 0, skipped |-> 0,
   collected_verdicts |-> << >>]

\* One iteration of the loop: count the verdict by its result, collect it.
TallyOne(tally, v) ==
  [tally EXCEPT ![v.result] = @ + 1,
                !.collected_verdicts = Append(@, v)]

\* Mutant of TallyIndicators: the loop ends at the first error verdict.
RECURSIVE TallyIndicators_StopAtError(_, _, _)
TallyIndicators_StopAtError(indicators, verdicts, tally) ==
  IF indicators = << >> \/ tally.error > 0 THEN tally
  ELSE TallyIndicators_StopAtError(
         Tail(indicators), verdicts,
         TallyOne(tally, CollectedVerdict(Head(indicators), verdicts)))

\* The loop over the declared indicators, in declaration order.
RECURSIVE TallyIndicators(_, _, _)
TallyIndicators(indicators, verdicts, tally) ==
  IF indicators = << >> THEN tally
  ELSE TallyIndicators(
         Tail(indicators), verdicts,
         TallyOne(tally, CollectedVerdict(Head(indicators), verdicts)))

\* attack.correlation.logic, default Any.
EffectiveLogic(attack) ==
  IF IsSome(attack.correlation) /\ IsSome(attack.correlation.v.logic)
  THEN attack.correlation.v.logic.v
  ELSE "any"

\* Mutant of CorrelateAny: a match is looked for before an error.
CorrelateAny_MatchedFirst(tally) ==
  IF tally.matched > 0 THEN "exploited"
  ELSE IF tally.error > 0 THEN "error"
  ELSE "not_exploited"

\* CorrelationLogic::Any
CorrelateAny(tally) ==
  IF tally.error > 0 THEN "error"
  ELSE IF tally.matched > 0 THEN "exploited"
  ELSE "not_exploited"

\* Mutant of CorrelateAll: skipped indicators do not stand in the way.
CorrelateAll_SkippedIgnored(tally) ==
  IF tally.error > 0 THEN "error"
  ELSE IF tally.matched > 0 /\ tally.not_matched = 0 THEN "exploited"
  ELSE IF tally.matched > 0 THEN "partial"
  ELSE "not_exploited"

\* CorrelationLogic::All
CorrelateAll(tally) ==
  IF tally.error > 0 THEN "error"
  ELSE IF tally.matched > 0 /\ tally.not_matched = 0 /\ tally.skipped = 0
  THEN "exploited"
  ELSE IF tally.matched > 0 THEN "partial"
  ELSE "not_exploited"

\* The AttackVerdict built from a result and a tally.
AttackVerdict(attack, result, tally) ==
  [attack_id |-> attack.id, result |-> result,
   indicator_verdicts |-> tally.collected_verdicts,
   evaluation_summary |->
     [matched |-> tally.matched, not_matched |-> tally.not_matched,
      error |-> tally.error, skipped |-> tally.skipped],
   timestamp |-> None, source |-> None]

\* The verdict of an attack whose indicator list is present.
VerdictOfIndicators(attack, indicators, verdicts) ==
  LET tally == TallyIndicators(indicators, verdicts, EmptyTally)
  IN AttackVerdict(attack,
                   IF EffectiveLogic(attack) = "any" THEN CorrelateAny(tally)
                   ELSE CorrelateAll(tally),
                   tally)

\* Mutant of compute_verdict: a missing indicator list is taken as empty.
compute_verdict_MissingAsEmpty(attack, verdicts) ==
  VerdictOfIndicators(attack,
                      IF IsSome(attack.indicators) THEN attack.indicators.v
                      ELSE << >>,
                      verdicts)

\* compute_verdict(attack, indicator_verdicts)
compute_verdict(attack, verdicts) ==
  IF IsNone(attack.indicators)
  THEN AttackVerdict(attack, "error", EmptyTally)
  ELSE VerdictOfIndicators(attack, attack.indicators.v, verdicts)

\* ------------------------------------------------------------------------
\* State
\* ------------------------------------------------------------------------
VARIABLES
  trigger,       \* the Trigger of this instance
  protocol,      \* the protocol of the actor the trigger belongs to
  state,         \* TriggerState {event_count: u64}
  origin,        \* the event_count the caller started the instance with
  full_matches,  \* how many calls so far had a fully matching event and no timeout
  last,          \* the last call: its inputs, the count before it, its outcome
  attack,              \* the Attack handed to compute_verdict
  indicator_verdicts,  \* the map indicator id -> IndicatorVerdict handed to it
  verdict,             \* the AttackVerdict it returned, None before the call
  indicator,           \* the Indicator handed to evaluate_indicator
  message,             \* the message it is evaluated against
  cel_evaluator,       \* Option<&dyn CelEvaluator>
  semantic_evaluator,  \* Option<&dyn SemanticEvaluator>
  indicator_verdict,   \* the IndicatorVerdict it returned, None before the call
  evaluator_calls,     \* the calls it made on the two evaluators
  condition,           \* the Condition handed to evaluate_condition
  predicate,           \* the MatchPredicate handed to evaluate_predicate
  path,                \* the path handed to the two path resolvers
  value,               \* the value these functions are applied to
  arguments,           \* the arguments of the other pure functions, as a record
  returned             \* what the function returned, None before the call

trigger_vars == <<trigger, protocol, state, origin, full_matches, last>>
verdict_vars == <<attack, indicator_verdicts, verdict>>
indicator_vars ==
  <<indicator, message, cel_evaluator, semantic_evaluator, indicator_verdict,
    evaluator_calls>>
function_vars == <<condition, predicate, path, value, arguments, returned>>
vars == <<trigger_vars, verdict_vars, indicator_vars, function_vars>>

\* No call made on an evaluator.
NoCalls == [cel |-> << >>, semantic |-> << >>]

\* An indicator with no detection key.
NoIndicator ==
  [id |-> None, pattern |-> None, expression |-> None, semantic |-> None]

\* The variables of evaluate_indicator in a run that does not call it.
IndicatorIdle ==
  /\ indicator = NoIndicator
  /\ message = VNull
  /\ cel_evaluator = None
  /\ semantic_evaluator = None
  /\ indicator_verdict = None
  /\ evaluator_calls = NoCalls

\* The variables of the pure functions in a run that does not call them.
FunctionsIdle ==
  /\ condition = None
  /\ predicate = None
  /\ path = None
  /\ value = VNull
  /\ arguments = None
  /\ returned = None

\* ------------------------------------------------------------------------
\* The trigger state machine: one trigger instance, its caller-owned state,
\* and the calls made on it
\* ------------------------------------------------------------------------

\* Bounds of the model.
MaxCount == 3
MaxMatches == 4

\* Event names: base events "c" and "l", qualifiers "x:y" and "z".
EvC == <<"c">>
EvL == <<"l">>
EvCxy == <<"c", ":", "x", ":", "y">>
EvCz == <<"c", ":", "z">>
Qxy == <<"x", ":", "y">>
Qz == <<"z">>
KeyK == <<"k">>
KeyN == <<"n">>

TriggerEvents == {None, Some(EvC), Some(EvCxy)}
TriggerCounts == {None} \cup {Some(c) : c \in {-1, 0, 1, MaxCount}}
TriggerPredicates ==
  {None,
   Some(KeyN :> Condition([NoOperators EXCEPT !.gte = Some(F64(2))]))}
\* "PT2S", and a string that is not a duration: "2x".
TriggerAfters == {None, Some(<<"P", "T", "2", "S">>), Some(<<"2", "x">>)}

Triggers ==
  {[event |-> e, count |-> c, match_predicate |-> m, after |-> a] :
     e \in TriggerEvents, c \in TriggerCounts,
     m \in TriggerPredicates, a \in TriggerAfters}

Protocols == {"mcp"}

\* Event contents: {"k": "x:y", "n": 2} and {}.
ContentFull == VObj((KeyK :> VStr(Qxy)) @@ (KeyN :> VNum(2)))
ContentEmpty == VObj(EmptyMap)

\* No event; every event type and qualifier with the full content; and the
\* base event "c" with the empty content, which no predicate on "n" passes
\* and from which the registry resolves no qualifier.
Events ==
  {None}
  \cup {Some([event_type |-> t, qualifier |-> q, content |-> ContentFull]) :
          t \in {EvC, EvCz, EvL}, q \in {None, Some(Qxy), Some(Qz)}}
  \cup {Some([event_type |-> EvC, qualifier |-> q, content |-> ContentEmpty]) :
          q \in {None, Some(Qxy)}}

\* 1.999999999 s and 2 s.
Elapsed ==
  {[secs |-> <<1>>, nanos |-> 999999999], [secs |-> <<2>>, nanos |-> 0]}

InitialCounts == {<<0>>, BigPred(U64_MAX)}

\* The attack of a run that correlates no verdicts.
NoAttack == [id |-> None, indicators |-> None, correlation |-> None]

NoCall ==
  [called |-> FALSE, event |-> None, elapsed |-> [secs |-> <<0>>, nanos |-> 0],
   before |-> <<0>>, result |-> NotAdvanced, panicked |-> FALSE]

\* The timeout of a call is due: `after` denotes a duration d, elapsed >= d.
TimeoutDue(trig, elapsed) ==
  /\ IsSome(trig.after)
  /\ LET d == parse_duration(trig.after.v)
     IN d.ok /\ DurationGe(elapsed, d.v)

\* The event of a call fully matches the trigger: same base event, the
\* trigger's qualifier (if any) equal to the event's, the predicate passing.
EventQualifier(ev, proto) ==
  IF IsSome(ev.qualifier) THEN ev.qualifier
  ELSE resolve_event_qualifier(proto, parse_event_qualifier(ev.event_type).base,
                               ev.content)

FullyMatches(trig, event, proto) ==
  /\ IsSome(trig.event)
  /\ IsSome(event)
  /\ parse_event_qualifier(trig.event.v).base
       = parse_event_qualifier(event.v.event_type).base
  /\ IsSome(parse_event_qualifier(trig.event.v).qualifier) =>
       EventQualifier(event.v, proto) = parse_event_qualifier(trig.event.v).qualifier
  /\ IsSome(trig.match_predicate) =>
       evaluate_predicate(trig.match_predicate.v, event.v.content)

InitTrigger ==
  /\ trigger \in Triggers
  /\ protocol \in Protocols
  /\ state \in {[event_count |-> c] : c \in InitialCounts}
  /\ origin = state.event_count
  /\ full_matches = 0
  /\ last = NoCall
  /\ attack = NoAttack
  /\ indicator_verdicts = EmptyMap
  /\ verdict = None
  /\ IndicatorIdle
  /\ FunctionsIdle

\* One call of evaluate_trigger on the instance.
EvaluateTrigger ==
  /\ ~last.panicked
  /\ full_matches < MaxMatches
  /\ \E event \in Events, elapsed \in Elapsed :
       \E out \in evaluate_trigger(trigger, event, elapsed, state, protocol) :
         /\ state' = out.state
         /\ last' = [called |-> TRUE, event |-> event, elapsed |-> elapsed,
                     before |-> state.event_count, result |-> out.result,
                     panicked |-> out.panicked]
         /\ full_matches' =
              IF ~TimeoutDue(trigger, elapsed) /\ FullyMatches(trigger, event, protocol)
              THEN full_matches + 1 ELSE full_matches
  /\ UNCHANGED <<trigger, protocol, origin, verdict_vars, indicator_vars,
               function_vars>>

NextTrigger == EvaluateTrigger

SpecTrigger == InitTrigger /\ [][NextTrigger]_vars

\* ------------------------------------------------------------------------
\* Verdict correlation: one attack, one map of indicator verdicts, one call
\* of compute_verdict
\* ------------------------------------------------------------------------

\* Bound of the model: the longest indicator list.
MaxIndicators == 3

\* Indicator ids: two named indicators, and an indicator without id.
IndicatorIds == {Some("i1"), Some("i2"), None}

RECURSIVE IndicatorListsOfLen(_)
IndicatorListsOfLen(n) ==
  IF n = 0 THEN {<< >>}
  ELSE {Append(l, [id |-> i]) : l \in IndicatorListsOfLen(n - 1), i \in IndicatorIds}

IndicatorLists == UNION {IndicatorListsOfLen(n) : n \in 0..MaxIndicators}

Correlations ==
  {None, Some([logic |-> None]), Some([logic |-> Some("any")]),
   Some([logic |-> Some("all")])}

Attacks ==
  {[id |-> Some("a1"), indicators |-> inds, correlation |-> c] :
     inds \in {None} \cup {Some(l) : l \in IndicatorLists}, c \in Correlations}

IndicatorResults == {"matched", "not_matched", "error", "skipped"}

\* The results an entry of the map may hold, per key: every result for the
\* named indicators; "matched" for the key "" (the key of an indicator
\* without id); "matched" or "error" for "zz", the id of no indicator.
EntryResults(key) ==
  CASE key = "" -> {"matched"}
    [] key = "zz" -> {"matched", "error"}
    [] OTHER -> IndicatorResults

VerdictKeys == {"i1", "i2", "", "zz"}

IndicatorVerdict(key, result) ==
  [indicator_id |-> key, result |-> result, timestamp |-> None,
   evidence |-> None, source |-> None]

VerdictMaps ==
  UNION {{[key \in keys |-> IndicatorVerdict(key, results[key])] :
            results \in {r \in [keys -> IndicatorResults] :
                           \A key \in keys : r[key] \in EntryResults(key)}} :
         keys \in SUBSET VerdictKeys}

InitVerdict ==
  /\ attack \in Attacks
  /\ indicator_verdicts \in VerdictMaps
  /\ verdict = None
  /\ trigger = [event |-> None, count |-> None, match_predicate |-> None,
                after |-> None]
  /\ protocol = "mcp"
  /\ state = [event_count |-> <<0>>]
  /\ origin = <<0>>
  /\ full_matches = 0
  /\ last = NoCall
  /\ IndicatorIdle
  /\ FunctionsIdle

\* The call of compute_verdict on the attack and the map.
ComputeVerdict ==
  /\ IsNone(verdict)
  /\ verdict' = Some(compute_verdict(attack, indicator_verdicts))
  /\ UNCHANGED <<attack, indicator_verdicts, trigger_vars, indicator_vars,
               function_vars>>

NextVerdict == ComputeVerdict

SpecVerdict == InitVerdict /\ [][NextVerdict]_vars

\* The variables of the trigger and of the verdict correlation in a run that
\* uses neither.
TriggerIdle ==
  /\ trigger = [event |-> None, count |-> None, match_predicate |-> None,
                after |-> None]
  /\ protocol = "mcp"
  /\ state = [event_count |-> <<0>>]
  /\ origin = <<0>>
  /\ full_matches = 0
  /\ last = NoCall
VerdictIdle ==
  /\ attack = NoAttack
  /\ indicator_verdicts = EmptyMap
  /\ verdict = None

\* ------------------------------------------------------------------------
\* Indicator evaluation: one indicator, one message, the two optional
\* evaluators, one call of evaluate_indicator
\* ------------------------------------------------------------------------

\* Bound of the model: the longest array in a message.
MaxElems == 2

KeyA == <<"a">>
KeyB == <<"b">>
KeyV == <<"v">>
TextX == <<"x">>
TextY == <<"y">>

\* The elements of the arrays: {"b": "x"}, {"b": "y"} and the string "x".
Elements == {VObj(KeyB :> VStr(TextX)), VObj(KeyB :> VStr(TextY)), VStr(TextX)}

RECURSIVE ArraysOfLen(_)
ArraysOfLen(n) ==
  IF n = 0 THEN {<< >>}
  ELSE {Append(a, e) : a \in ArraysOfLen(n - 1), e \in Elements}

\* Messages: {"a": [...]} for every array up to MaxElems elements; a bare
\* string; null; {"a": true}; {"a": 2}.
Messages ==
  {VObj(KeyA :> VArr(a)) : a \in UNION {ArraysOfLen(n) : n \in 0..MaxElems}}
  \cup {VStr(TextX), VNull, VObj(KeyA :> VBool(TRUE)), VObj(KeyA :> VNum(2))}

\* Paths: "a", "a[*]", "a[*].b", "b".
PathA == KeyA
PathAStar == <<"a", "[", "*", "]">>
PathAStarB == <<"a", "[", "*", "]", ".", "b">>
PathB == KeyB

Patterns ==
  {[target |-> t, condition |-> c] :
     t \in {None, Some(PathA), Some(PathAStar), Some(PathAStarB)},
     c \in {None, Some(Equality(VStr(TextX))),
            Some(Operators([NoOperators EXCEPT !.contains = Some(TextY)]))}}

\* Expressions: the identifier v or message, with no variables, v bound to
\* the path "a" or "b", or a variable named message bound to "a".
Expressions ==
  {[cel |-> c, variables |-> vs] :
     c \in {KeyV, MessageKey},
     vs \in {None, Some(KeyV :> PathA), Some(KeyV :> PathB),
             Some(MessageKey :> PathA)}}

Semantics ==
  {[target |-> t, intent |-> "intent", intent_class |-> None,
    threshold |-> th, examples |-> None] :
     t \in {None, Some(PathAStar), Some(PathAStarB)}, th \in {None, Some(80)}}

\* One representative of each kind, for the indicators with several keys.
OnePattern == [target |-> Some(PathAStarB), condition |-> Some(Equality(VStr(TextX)))]
OneExpression == [cel |-> KeyV, variables |-> Some(KeyV :> PathA)]
OneSemantic ==
  [target |-> Some(PathAStarB), intent |-> "intent", intent_class |-> None,
   threshold |-> None, examples |-> None]

\* Indicators: every single-key indicator, the indicators with two or three
\* keys made of the representatives, and the indicator with no key; with an
\* id, and the representatives also without.
Indicators ==
  {[id |-> Some("i1"), pattern |-> Some(p), expression |-> None, semantic |-> None] :
     p \in Patterns}
  \cup {[id |-> Some("i1"), pattern |-> None, expression |-> Some(e), semantic |-> None] :
          e \in Expressions}
  \cup {[id |-> Some("i1"), pattern |-> None, expression |-> None, semantic |-> Some(m)] :
          m \in Semantics}
  \cup {[id |-> i, pattern |-> p, expression |-> e, semantic |-> m] :
          i \in {Some("i1"), None},
          p \in {None, Some(OnePattern)},
          e \in {None, Some(OneExpression)},
          m \in {None, Some(OneSemantic)}}

CelEvaluators == {None, Some(CelDefault), Some(CelFailing)}

SemanticFailure == <<"semantic evaluator failed">>

\* A semantic evaluator: what it returns on the texts "x" and "y", and what
\* on every other text. Scores lie in [0, 1].
SemanticEvaluators ==
  {None}
  \cup {Some([table |-> (TextX :> on_x) @@ (TextY :> on_y), other |-> other]) :
          on_x \in {Ok(69), Ok(70), Ok(80), ErrMsg(SemanticFailure)},
          on_y \in {Ok(69), Ok(80), ErrMsg(SemanticFailure)},
          other \in {Ok(0), Ok(70)}}

InitIndicator ==
  /\ indicator \in Indicators
  /\ message \in Messages
  /\ cel_evaluator \in CelEvaluators
  /\ semantic_evaluator \in SemanticEvaluators
  /\ indicator_verdict = None
  /\ evaluator_calls = NoCalls
  /\ TriggerIdle
  /\ VerdictIdle
  /\ FunctionsIdle

\* The call of evaluate_indicator.
EvaluateIndicator ==
  /\ IsNone(indicator_verdict)
  /\ indicator_verdict' =
       Some(evaluate_indicator(indicator, message, cel_evaluator,
                               semantic_evaluator))
  /\ evaluator_calls' =
       EvaluatorCalls(indicator, message, cel_evaluator, semantic_evaluator)
  /\ UNCHANGED <<indicator, message, cel_evaluator, semantic_evaluator,
                 trigger_vars, verdict_vars, function_vars>>

NextIndicator == EvaluateIndicator

SpecIndicator == InitIndicator /\ [][NextIndicator]_vars

\* ------------------------------------------------------------------------
\* evaluate_condition as a state machine: a condition and a subject, then
\* the call.
\* ------------------------------------------------------------------------
MaxAnyOf == 2

\* f64 thresholds: 1, 2, 2^53 and 2^53 + 2.
Thresholds == {F64(1), F64(2), [hi |-> 1, n |-> 0], [hi |-> 1, n |-> 2]}

\* The members of any_of lists and the expected values of equalities.
Members ==
  {VNull, VBool(TRUE), VNum(2), VFloat(2), VStr(TextX), VBigInt(0), VBigInt(1),
   VArr(<<VNum(1)>>), VArr(<<VFloat(1)>>), VArr(<<VNum(1), VNum(2)>>),
   VObj(KeyA :> VNum(1)), VObj(KeyA :> VNum(1) @@ KeyB :> VNull)}

\* The subjects a condition is evaluated on.
Subjects ==
  Members \cup {VBool(FALSE), VNum(1), VNum(3), VBigInt(2), VStr(<<"x", "y">>),
                VStr(<<"y", "x">>), VArr(<< >>), VObj(EmptyMap),
                VObj(KeyB :> VNull @@ KeyA :> VFloat(1))}

RECURSIVE ListsOfLen(_)
ListsOfLen(n) ==
  IF n = 0 THEN {<< >>}
  ELSE {Append(l, x) : l \in ListsOfLen(n - 1),
                       x \in {VNum(2), VStr(TextX), VBigInt(0), VArr(<<VNum(1)>>)}}

AnyOfLists == UNION {ListsOfLen(n) : n \in 0..MaxAnyOf}

\* Operator sets with one operator each.
SingleOperators ==
  {[NoOperators EXCEPT !.gt = Some(b)] : b \in Thresholds}
  \cup {[NoOperators EXCEPT !.lt = Some(b)] : b \in Thresholds}
  \cup {[NoOperators EXCEPT !.gte = Some(b)] : b \in Thresholds}
  \cup {[NoOperators EXCEPT !.lte = Some(b)] : b \in Thresholds}
  \cup {[NoOperators EXCEPT !.any_of = Some(l)] : l \in AnyOfLists}
  \cup {[NoOperators EXCEPT !.any_of = Some(<<x>>)] : x \in Members}
  \cup {[NoOperators EXCEPT !.contains = Some(TextY)],
        [NoOperators EXCEPT !.starts_with = Some(TextX)],
        [NoOperators EXCEPT !.ends_with = Some(TextX)]}

\* Operator sets with any number of operators, exists among them.
OperatorSets ==
  {[contains |-> c, starts_with |-> sw, ends_with |-> None, regex |-> re,
    any_of |-> ao, gt |-> g, lt |-> None, gte |-> None, lte |-> le,
    exists |-> ex] :
     c \in {None, Some(TextX)}, sw \in {None, Some(TextX)},
     re \in {None, Some(TextX), Some(<<"(">>)},
     ao \in {None, Some(<<VFloat(2), VStr(TextX)>>)},
     g \in {None, Some(F64(1))}, le \in {None, Some(F64(2))},
     ex \in {None, Some(TRUE), Some(FALSE)}}

Conditions ==
  {Equality(x) : x \in Members}
  \cup {Operators(c) : c \in SingleOperators \cup OperatorSets}

InitCondition ==
  /\ condition \in {Some(c) : c \in Conditions}
  /\ value \in Subjects
  /\ predicate = None
  /\ path = None
  /\ arguments = None
  /\ returned = None
  /\ TriggerIdle
  /\ VerdictIdle
  /\ IndicatorIdle

\* The call of evaluate_condition.
EvaluateCondition ==
  /\ IsSome(condition)
  /\ IsNone(returned)
  /\ returned' = Some(evaluate_condition(condition.v, value))
  /\ UNCHANGED <<condition, predicate, path, value, arguments,
                 trigger_vars, verdict_vars, indicator_vars>>

NextCondition == EvaluateCondition

SpecCondition == InitCondition /\ [][NextCondition]_vars

\* ------------------------------------------------------------------------
\* evaluate_predicate as a state machine: a predicate and a value, then the
\* call.
\* ------------------------------------------------------------------------
MaxEntries == 2

PathADotB == <<"a", ".", "b">>

\* The values a predicate is evaluated on; in {"a": null} the path a
\* resolves, to null.
PredicateValues ==
  {VObj(KeyA :> VNull), VObj(KeyA :> VStr(TextX)), VObj(KeyA :> VNum(2)),
   VObj(EmptyMap), VObj(KeyA :> VObj(KeyB :> VStr(TextX))),
   VObj(KeyA :> VObj(KeyB :> VNull)), VObj(KeyA :> VArr(<<VStr(TextX)>>)),
   VObj(KeyB :> VStr(TextX)), VNull}

\* Operator sets: exists absent, true or false, alone or with operators.
PredicateConditions ==
  {[NoOperators EXCEPT !.exists = ex, !.contains = c, !.gt = g, !.any_of = ao] :
     ex \in {None, Some(TRUE), Some(FALSE)},
     c \in {None, Some(TextX)},
     g \in {None, Some(F64(1))},
     ao \in {None, Some(<<VNull>>)}}

PredicateEntries ==
  {Condition(c) : c \in PredicateConditions}
  \cup {Scalar(VNull), Scalar(VStr(TextX))}

PredicatePaths == <<KeyA, PathADotB, KeyB>>

\* The predicates with n entries, on the first n paths.
RECURSIVE PredicatesOfSize(_)
PredicatesOfSize(n) ==
  IF n = 0 THEN {EmptyMap}
  ELSE {p @@ (PredicatePaths[n] :> e) :
          p \in PredicatesOfSize(n - 1), e \in PredicateEntries}

Predicates ==
  UNION {PredicatesOfSize(n) : n \in 0..MaxEntries}
  \cup {PathADotB :> e : e \in PredicateEntries}
  \cup {KeyB :> e : e \in PredicateEntries}

InitPredicate ==
  /\ predicate \in {Some(p) : p \in Predicates}
  /\ value \in PredicateValues
  /\ condition = None
  /\ path = None
  /\ arguments = None
  /\ returned = None
  /\ TriggerIdle
  /\ VerdictIdle
  /\ IndicatorIdle

\* The call of evaluate_predicate.
EvaluatePredicate ==
  /\ IsSome(predicate)
  /\ IsNone(returned)
  /\ returned' = Some(evaluate_predicate(predicate.v, value))
  /\ UNCHANGED <<condition, predicate, path, value, arguments,
                 trigger_vars, verdict_vars, indicator_vars>>

NextPredicate == EvaluatePredicate

SpecPredicate == InitPredicate /\ [][NextPredicate]_vars

\* ------------------------------------------------------------------------
\* Path resolution as a state machine: a path and a value tree, then both
\* resolve_simple_path and resolve_wildcard_path.
\* ------------------------------------------------------------------------
MaxDepth == 2

\* Field names: a, b and ab.
FieldNames == {KeyA, KeyB, <<"a", "b">>}

\* The sequences of n field names.
RECURSIVE NameSeqs(_)
NameSeqs(n) ==
  IF n = 0 THEN {<< >>}
  ELSE {Append(names, f) : names \in NameSeqs(n - 1), f \in FieldNames}

\* The dot-path of a sequence of segments.
RECURSIVE JoinDots(_)
JoinDots(segs) ==
  IF segs = << >> THEN << >>
  ELSE IF Len(segs) = 1 THEN segs[1]
  ELSE segs[1] \o <<".">> \o JoinDots(Tail(segs))

\* The tree of objects nested along the names, with the leaf at the end.
RECURSIVE Nest(_, _)
Nest(names, leaf) ==
  IF names = << >> THEN leaf
  ELSE VObj(Head(names) :> Nest(Tail(names), leaf))

\* Leaves: values that are not objects with fields.
Leaves ==
  {VNull, VNum(1), VStr(TextX), VArr(<<VStr(TextX)>>), VObj(EmptyMap)}

\* The segment texts f and f[*], for the fields a and b.
Star == <<"[", "*", "]">>
SegmentTexts == {KeyA, KeyB, KeyA \o Star, KeyB \o Star}
WildcardPrefixes == {<< >>, KeyA, KeyB, KeyA \o Star}

\* A key with a character that is_path_segment_char rejects: "a$".
KeyDollar == <<"a", "$">>

\* A path with one more segment.
Extend(pre, segtext) == IF pre = << >> THEN segtext ELSE pre \o <<".">> \o segtext

PathInputs ==
  {JoinDots(names) : names \in UNION {NameSeqs(n) : n \in 0..(MaxDepth + 1)}}
  \cup {Extend(pre, segtext) : pre \in WildcardPrefixes, segtext \in SegmentTexts}
  \cup {Star, <<"a", ".", "0">>, <<"a", "[", "0", "]">>, <<".", "a">>,
        <<"a", "[", "*", "]", "b">>, <<"a", ".">>, <<"a", "[", "-", "1", "]">>,
        <<"a", "[", "*">>, <<"a", "[">>, <<".", "[", "*", "]">>, KeyDollar,
        <<"a", ".", ".", "b">>, Star \o <<".", "b">>}

\* Trees: nested objects with a leaf, and objects holding arrays.
Trees ==
  {Nest(names, leaf) : names \in UNION {NameSeqs(n) : n \in 0..MaxDepth},
                       leaf \in Leaves}
  \cup {VObj(KeyA :> VArr(a)) : a \in UNION {ArraysOfLen(n) : n \in 0..MaxElems}}
  \cup {VObj(KeyA :> VArr(<<VObj(KeyB :> VArr(<<VStr(TextX), VStr(TextY)>>)),
                           VObj(KeyB :> VStr(TextX)),
                           VObj(KeyA :> VArr(<<VNull>>)),
                           VObj(KeyB :> VArr(<<VNum(1)>>))>>)),
        VObj(KeyA :> VObj(KeyB :> VArr(<<VStr(TextY), VStr(TextX)>>))),
        VObj(KeyA :> VObj(KeyA :> VNum(1) @@ KeyB :> VNum(2)) @@ KeyB :> VNull),
        VArr(<<VStr(TextX), VStr(TextY)>>),
        VArr(<<VObj(KeyB :> VNum(1)), VObj(KeyB :> VNum(2))>>),
        VObj(KeyDollar :> VNum(1))}

InitPath ==
  /\ path \in {Some(p) : p \in PathInputs}
  /\ value \in Trees
  /\ condition = None
  /\ predicate = None
  /\ arguments = None
  /\ returned = None
  /\ TriggerIdle
  /\ VerdictIdle
  /\ IndicatorIdle

\* The calls of resolve_simple_path and resolve_wildcard_path on the same
\* path and value.
ResolvePath ==
  /\ IsSome(path)
  /\ IsNone(returned)
  /\ returned' = Some([simple |-> resolve_simple_path(path.v, value),
                       wildcard |-> resolve_wildcard_path(path.v, value)])
  /\ UNCHANGED <<condition, predicate, path, value, arguments,
                 trigger_vars, verdict_vars, indicator_vars>>

NextPath == ResolvePath

SpecPath == InitPath /\ [][NextPath]_vars

\* ------------------------------------------------------------------------
\* parse_duration as a state machine: an input string, then the call.
\* ------------------------------------------------------------------------
MaxComponent == 2

\* Magnitudes as digit strings: small ones, one with a leading zero, the
\* largest that fit after scaling by 86400, 3600 and 60 and their
\* successors, u64::MAX and u64::MAX + 1.
Magnitudes ==
  {<<"0">>,
   <<"1">>,
   <<"2">>,
   <<"0", "7">>,
   <<"6", "0">>,
   <<"2", "1", "3", "5", "0", "3", "9", "8", "2", "3", "3", "4", "6", "0", "1">>,
   <<"2", "1", "3", "5", "0", "3", "9", "8", "2", "3", "3", "4", "6", "0", "2">>,
   <<"5", "1", "2", "4", "0", "9", "5", "5", "7", "6", "0", "3", "0", "4", "3", "1">>,
   <<"5", "1", "2", "4", "0", "9", "5", "5", "7", "6", "0", "3", "0", "4", "3", "2">>,
   <<"3", "0", "7", "4", "4", "5", "7", "3", "4", "5", "6", "1", "8", "2", "5", "8", "6", "0">>,
   <<"3", "0", "7", "4", "4", "5", "7", "3", "4", "5", "6", "1", "8", "2", "5", "8", "6", "1">>,
   <<"1", "8", "4", "4", "6", "7", "4", "4", "0", "7", "3", "7", "0", "9", "5", "5", "1", "6", "1", "5">>,
   <<"1", "8", "4", "4", "6", "7", "4", "4", "0", "7", "3", "7", "0", "9", "5", "5", "1", "6", "1", "6">>}

ShorthandUnits == <<"s", "m", "h", "d">>
UnitMultipliers == <<1, 60, 3600, 86400>>

\* The shorthand text {n}{unit} and the ISO text with the same meaning:
\* PT{n}S, PT{n}M, PT{n}H, P{n}D.
ShorthandText(n, u) == n \o <<ShorthandUnits[u]>>
IsoText(n, u) ==
  IF u = 4 THEN <<"P">> \o n \o <<"D">>
  ELSE <<"P", "T">> \o n \o <<(<<"S", "M", "H">>)[u]>>

\* A component of a combined ISO duration: absent, or 1..MaxComponent.
ComponentChoices == {None} \cup {Some(c) : c \in 1..MaxComponent}

ComponentText(c, designator) ==
  IF IsNone(c) THEN << >> ELSE IntToChars(c.v) \o <<designator>>

\* P{d}DT{h}H{m}M{s}S with the components that are present; no T when no
\* time component is.
CombinedText(d, h, m, sec) ==
  <<"P">> \o ComponentText(d, "D")
  \o (IF IsNone(h) /\ IsNone(m) /\ IsNone(sec) THEN << >> ELSE <<"T">>)
  \o ComponentText(h, "H") \o ComponentText(m, "M") \o ComponentText(sec, "S")

\* ISO durations whose sum is at the edge of the u64 range.
EdgeIsoInputs ==
  {<<"P", "2", "1", "3", "5", "0", "3", "9", "8", "2", "3", "3", "4", "6", "0", "1", "D", "T", "5", "1", "2", "4", "0", "9", "5", "5", "7", "6", "0", "3", "0", "4", "3", "1", "H">>,
   <<"P", "2", "1", "3", "5", "0", "3", "9", "8", "2", "3", "3", "4", "6", "0", "1", "D", "T", "7", "H">>,
   <<"P", "2", "1", "3", "5", "0", "3", "9", "8", "2", "3", "3", "4", "6", "0", "1", "D", "T", "6", "H", "5", "9", "M", "5", "9", "S">>,
   <<"P", "2", "1", "3", "5", "0", "3", "9", "8", "2", "3", "3", "4", "6", "0", "1", "D", "T", "6", "H", "5", "9", "M", "7", "6", "S">>,
   <<"P", "T", "5", "1", "2", "4", "0", "9", "5", "5", "7", "6", "0", "3", "0", "4", "3", "1", "H", "1", "6", "M">>,
   <<"P", "T", "3", "0", "7", "4", "4", "5", "7", "3", "4", "5", "6", "1", "8", "2", "5", "8", "6", "0", "M", "1", "6", "S">>}

\* Inputs of neither grammar, among them numbers with a sign.
OtherInputs ==
  {<< >>,
   <<"P">>,
   <<"P", "T">>,
   <<"P", "1", "D", "T">>,
   <<"P", "T", "1", "M", "1", "H">>,
   <<"P", "T", "1", "S", "1", "M">>,
   <<"P", "T", "1", "H", "1", "H">>,
   <<"P", "1", "D", "1", "D">>,
   <<"P", "1", "D", "T", "1", "D">>,
   <<"P", "T", "1", "D">>,
   <<"P", "1", "H">>,
   <<"P", "1", "S">>,
   <<"1", "x">>,
   <<"s">>,
   <<"5">>,
   <<"+", "5", "s">>,
   <<"P", "T", "+", "5", "S">>,
   <<"P", "+", "1", "D">>,
   <<"-", "5", "s">>,
   <<"1", ".", "5", "s">>,
   <<"P", "T", "1", ".", "5", "S">>,
   <<" ", "5", "s">>,
   <<"5", "s", " ">>,
   <<"5", "S">>,
   <<"p", "t", "5", "s">>,
   <<"P", "T", "S">>,
   <<"P", "D">>,
   <<"P", "1", "W">>,
   <<"T", "1", "S">>,
   <<"1", "P">>,
   <<"P", "1", "D", "T", "1", "H", "1">>,
   <<"P", "T", "5">>}

DurationInputs ==
  {ShorthandText(n, u) : n \in Magnitudes, u \in 1..4}
  \cup {IsoText(n, u) : n \in Magnitudes, u \in 1..4}
  \cup {CombinedText(d, h, m, sec) : d \in ComponentChoices, h \in ComponentChoices,
                                     m \in ComponentChoices, sec \in ComponentChoices}
  \cup EdgeIsoInputs
  \cup OtherInputs

InitDuration ==
  /\ arguments \in {Some([input |-> i]) : i \in DurationInputs}
  /\ returned = None
  /\ condition = None
  /\ predicate = None
  /\ path = None
  /\ value = VNull
  /\ TriggerIdle
  /\ VerdictIdle
  /\ IndicatorIdle

\* The call of parse_duration.
ParseDuration ==
  /\ IsSome(arguments)
  /\ IsNone(returned)
  /\ returned' = Some(parse_duration(arguments.v.input))
  /\ UNCHANGED <<condition, predicate, path, value, arguments,
                 trigger_vars, verdict_vars, indicator_vars>>

NextDuration == ParseDuration

SpecDuration == InitDuration /\ [][NextDuration]_vars

\* ------------------------------------------------------------------------
\* compute_effective_state: state inheritance across phases
\* ------------------------------------------------------------------------

\* Mutant of EffectiveLoop: the walk does not stop after phase_index.
RECURSIVE EffectiveLoop_AllPhases(_, _, _, _)
EffectiveLoop_AllPhases(phases, i, phase_index, effective) ==
  IF i >= Len(phases) THEN effective
  ELSE EffectiveLoop_AllPhases(
         phases, i + 1, phase_index,
         IF IsSome(phases[i + 1].state) THEN phases[i + 1].state.v ELSE effective)

\* The loop over phases.iter().enumerate(), at the (0-based) index i.
RECURSIVE EffectiveLoop(_, _, _, _)
EffectiveLoop(phases, i, phase_index, effective) ==
  IF i >= Len(phases) THEN effective
  ELSE IF i > phase_index THEN effective
  ELSE EffectiveLoop(
         phases, i + 1, phase_index,
         IF IsSome(phases[i + 1].state) THEN phases[i + 1].state.v ELSE effective)

compute_effective_state(phases, phase_index) ==
  EffectiveLoop(phases, 0, phase_index, VNull)

MaxPhases == 3

\* The state of a phase: absent, null, or one of two objects.
PhaseStates ==
  {None, Some(VNull), Some(VObj(KeyA :> VNum(1))), Some(VObj(KeyB :> VNum(2)))}

RECURSIVE PhaseListsOfLen(_)
PhaseListsOfLen(n) ==
  IF n = 0 THEN {<< >>}
  ELSE {Append(l, [state |-> st]) : l \in PhaseListsOfLen(n - 1), st \in PhaseStates}

PhaseLists == UNION {PhaseListsOfLen(n) : n \in 0..MaxPhases}

InitEffectiveState ==
  /\ arguments \in {Some([phases |-> l, phase_index |-> i]) :
                     l \in PhaseLists, i \in 0..(MaxPhases + 1)}
  /\ returned = None
  /\ condition = None
  /\ predicate = None
  /\ path = None
  /\ value = VNull
  /\ TriggerIdle
  /\ VerdictIdle
  /\ IndicatorIdle

\* The call of compute_effective_state.
ComputeEffectiveState ==
  /\ IsSome(arguments)
  /\ IsNone(returned)
  /\ returned' = Some(compute_effective_state(arguments.v.phases,
                                              arguments.v.phase_index))
  /\ UNCHANGED <<condition, predicate, path, value, arguments,
                 trigger_vars, verdict_vars, indicator_vars>>

NextEffectiveState == ComputeEffectiveState

SpecEffectiveState == InitEffectiveState /\ [][NextEffectiveState]_vars

\* ------------------------------------------------------------------------
\* select_response: the first matching response entry
\* ------------------------------------------------------------------------

\* Mutant of SelectLoop: an entry without `when` is returned as soon as it
\* is met.
RECURSIVE SelectLoop_DefaultAtOnce(_, _, _, _)
SelectLoop_DefaultAtOnce(entries, i, request, default_entry) ==
  IF i > Len(entries) THEN default_entry
  ELSE IF IsSome(entries[i].when)
  THEN IF evaluate_predicate(entries[i].when.v, request) THEN Some(i)
       ELSE SelectLoop_DefaultAtOnce(entries, i + 1, request, default_entry)
  ELSE Some(i)

\* The loop over the entries, at the (1-based) position i. A reference to
\* an entry is its position in the list.
RECURSIVE SelectLoop(_, _, _, _)
SelectLoop(entries, i, request, default_entry) ==
  IF i > Len(entries) THEN default_entry
  ELSE IF IsSome(entries[i].when)
  THEN IF evaluate_predicate(entries[i].when.v, request) THEN Some(i)
       ELSE SelectLoop(entries, i + 1, request, default_entry)
  ELSE SelectLoop(entries, i + 1, request,
                  IF IsNone(default_entry) THEN Some(i) ELSE default_entry)

select_response(entries, request) == SelectLoop(entries, 1, request, None)

MaxResponses == 3

\* `when`: absent, a == "x", a == "y", or the empty predicate.
WhenPredicates ==
  {None, Some(KeyA :> Scalar(VStr(TextX))), Some(KeyA :> Scalar(VStr(TextY))),
   Some(EmptyMap)}

RECURSIVE ResponseListsOfLen(_)
ResponseListsOfLen(n) ==
  IF n = 0 THEN {<< >>}
  ELSE {Append(l, [when |-> w]) : l \in ResponseListsOfLen(n - 1),
                                  w \in WhenPredicates}

ResponseLists == UNION {ResponseListsOfLen(n) : n \in 0..MaxResponses}

\* Requests: {"a": "x"}, {"a": "y"}, {}.
Requests == {VObj(KeyA :> VStr(TextX)), VObj(KeyA :> VStr(TextY)), VObj(EmptyMap)}

InitSelectResponse ==
  /\ arguments \in {Some([entries |-> l, request |-> r]) :
                     l \in ResponseLists, r \in Requests}
  /\ returned = None
  /\ condition = None
  /\ predicate = None
  /\ path = None
  /\ value = VNull
  /\ TriggerIdle
  /\ VerdictIdle
  /\ IndicatorIdle

\* The call of select_response.
SelectResponse ==
  /\ IsSome(arguments)
  /\ IsNone(returned)
  /\ returned' = Some(select_response(arguments.v.entries, arguments.v.request))
  /\ UNCHANGED <<condition, predicate, path, value, arguments,
                 trigger_vars, verdict_vars, indicator_vars>>

NextSelectResponse == SelectResponse

SpecSelectResponse == InitSelectResponse /\ [][NextSelectResponse]_vars

\* ------------------------------------------------------------------------
\* interpolate_template
\* ------------------------------------------------------------------------

\* str::find: the position of the first occurrence of pat in s, as an
\* Option of a 1-based position.
str_find(s, pat) ==
  LET hits == {i \in 1..(Len(s) + 1 - Len(pat)) :
                 SubSeq(s, i, i + Len(pat) - 1) = pat}
  IN IF hits = {} THEN None
     ELSE Some(CHOOSE i \in hits : \A j \in hits : i <= j)

\* str::replace: every non-overlapping occurrence of pat, left to right.
RECURSIVE str_replace(_, _, _)
str_replace(s, pat, with) ==
  LET found == str_find(s, pat)
  IN IF IsNone(found) THEN s
     ELSE SubSeq(s, 1, found.v - 1) \o with
          \o str_replace(SubSeq(s, found.v + Len(pat), Len(s)), pat, with)

\* The NUL character, written as one element of a string.
NulChar == "\\0"

\* const PLACEHOLDER: "\x00ESCAPED_OPEN_BRACE\x00".
PLACEHOLDER ==
  <<NulChar, "E", "S", "C", "A", "P", "E", "D", "_", "O", "P", "E", "N",
    "_", "B", "R", "A", "C", "E", NulChar>>

EscapedOpen == <<"\\", "{", "{">>
OpenBraces == <<"{", "{">>
CloseBraces == <<"}", "}">>
RequestPrefix == <<"r", "e", "q", "u", "e", "s", "t", ".">>
ResponsePrefix == <<"r", "e", "s", "p", "o", "n", "s", "e", ".">>

\* value_to_string: a string as it is, everything else as JSON text.
value_to_string(v) ==
  IF v.k = "str" THEN v.s ELSE to_string(v)

\* w004_diagnostic: a warning W-004 whose message names the expression.
w004_diagnostic(expr) ==
  [severity |-> "warning", code |-> "W-004", location |-> None,
   reference |-> expr]

\* The branch of the resolution order that reads a message: the text and
\* the diagnostics it adds.
ResolveInMessage(expr, rest, msg) ==
  IF IsSome(msg)
  THEN LET v == resolve_simple_path(rest, msg.v)
       IN IF IsSome(v)
          THEN [text |-> value_to_string(v.v), diagnostics |-> << >>]
          ELSE [text |-> << >>, diagnostics |-> <<w004_diagnostic(expr)>>]
  ELSE [text |-> << >>, diagnostics |-> <<w004_diagnostic(expr)>>]

\* The resolution of one expression: the extractors map, then `request.`,
\* then `response.`, otherwise nothing and a W-004.
ResolveExpression(expr, extractors, request, response) ==
  IF expr \in DOMAIN extractors
  THEN [text |-> extractors[expr], diagnostics |-> << >>]
  ELSE IF StartsWith(expr, RequestPrefix)
  THEN ResolveInMessage(expr,
         SubSeq(expr, Len(RequestPrefix) + 1, Len(expr)), request)
  ELSE IF StartsWith(expr, ResponsePrefix)
  THEN ResolveInMessage(expr,
         SubSeq(expr, Len(ResponsePrefix) + 1, Len(expr)), response)
  ELSE [text |-> << >>, diagnostics |-> <<w004_diagnostic(expr)>>]

\* The while loop of interpolate_template over `remaining`: what it appends
\* to `result` and to `diagnostics`.
RECURSIVE InterpolateLoop(_, _, _, _)
InterpolateLoop(remaining, extractors, request, response) ==
  LET start == str_find(remaining, OpenBraces)
  IN IF IsNone(start)
     THEN [text |-> remaining, diagnostics |-> << >>]
     ELSE LET before == SubSeq(remaining, 1, start.v - 1)
              after_open == SubSeq(remaining, start.v + 2, Len(remaining))
              end == str_find(after_open, CloseBraces)
          IN IF IsSome(end)
             THEN LET expr == SubSeq(after_open, 1, end.v - 1)
                      resolved == ResolveExpression(expr, extractors,
                                                    request, response)
                      rest == InterpolateLoop(
                                SubSeq(after_open, end.v + 2, Len(after_open)),
                                extractors, request, response)
                  IN [text |-> before \o resolved.text \o rest.text,
                      diagnostics |->
                        resolved.diagnostics \o rest.diagnostics]
             ELSE LET rest == InterpolateLoop(after_open, extractors,
                                              request, response)
                  IN [text |-> before \o OpenBraces \o rest.text,
                      diagnostics |-> rest.diagnostics]

\* interpolate_template: escaped braces become the placeholder, the loop
\* runs, the placeholder becomes `{{`.
interpolate_template(template, extractors, request, response) ==
  LET working == str_replace(template, EscapedOpen, PLACEHOLDER)
      looped == InterpolateLoop(working, extractors, request, response)
  IN [text |-> str_replace(looped.text, PLACEHOLDER, OpenBraces),
      diagnostics |-> looped.diagnostics]

\* The templates of the model: up to MaxPieces pieces, each an escaped
\* opening, an opening, a closing or a reference.
MaxPieces == 4
NameX == <<"x">>
RequestA == RequestPrefix \o KeyA
ResponseA == ResponsePrefix \o KeyA
TemplatePieces ==
  {EscapedOpen, OpenBraces, CloseBraces, NameX, RequestA, ResponseA}
RECURSIVE TemplatesOfLen(_)
TemplatesOfLen(n) ==
  IF n = 0 THEN {<< >>}
  ELSE {p \o t : p \in TemplatePieces, t \in TemplatesOfLen(n - 1)}
Templates == UNION {TemplatesOfLen(n) : n \in 0..MaxPieces}

NoExtractors == [n \in {} |-> << >>]
ExtractorMaps ==
  {NoExtractors, NameX :> <<"v">>, RequestA :> <<"e">>}
TemplateRequests ==
  {None, Some(VObj(KeyA :> VStr(<<"q">>))), Some(VObj(KeyB :> VNum(1)))}
TemplateResponses == {None, Some(VObj(KeyA :> VNum(7)))}

InitTemplate ==
  /\ arguments \in {Some([template |-> t, extractors |-> e,
                          request |-> rq, response |-> rs]) :
                     t \in Templates, e \in ExtractorMaps,
                     rq \in TemplateRequests, rs \in TemplateResponses}
  /\ returned = None
  /\ condition = None
  /\ predicate = None
  /\ path = None
  /\ value = VNull
  /\ TriggerIdle
  /\ VerdictIdle
  /\ IndicatorIdle

\* The call of interpolate_template.
InterpolateTemplate ==
  /\ IsSome(arguments)
  /\ IsNone(returned)
  /\ returned' = Some(interpolate_template(
                        arguments.v.template, arguments.v.extractors,
                        arguments.v.request, arguments.v.response))
  /\ UNCHANGED <<condition, predicate, path, value, arguments,
                 trigger_vars, verdict_vars, indicator_vars>>

NextTemplate == InterpolateTemplate

SpecTemplate == InitTemplate /\ [][NextTemplate]_vars

\* ------------------------------------------------------------------------
\* normalize
\* ------------------------------------------------------------------------

\* A document is [attack |-> ...] with the fields normalize reads or
\* writes: id, name, version, status, severity, execution (mode, state,
\* phases, actors), indicators, correlation, classification. A phase is
\* [name, mode, state, trigger], a trigger [event, count], an actor
\* [name, mode, phases], an indicator [id, protocol, surface, pattern,
\* semantic], a pattern [target, condition, contains, regex, gt].

\* The function s with f applied to each element (iter_mut).
MapSeq(f(_), s) == [i \in 1..Len(s) |-> f(s[i])]

ServerSuffix == <<"_", "s", "e", "r", "v", "e", "r">>
ClientSuffix == <<"_", "c", "l", "i", "e", "n", "t">>
McpServer == <<"m", "c", "p">> \o ServerSuffix
A2aClient == <<"a", "2", "a">> \o ClientSuffix

\* extract_protocol: the mode without its `_server` or `_client` suffix.
extract_protocol(mode) ==
  IF EndsWith(mode, ServerSuffix)
  THEN SubSeq(mode, 1, Len(mode) - Len(ServerSuffix))
  ELSE IF EndsWith(mode, ClientSuffix)
  THEN SubSeq(mode, 1, Len(mode) - Len(ClientSuffix))
  ELSE mode

\* lookup_surface: the registry entry of a surface, here its default
\* target; two registered surfaces and every other name unregistered.
lookup_surface(surface) ==
  CASE surface = "tool_description" -> Some("tools[*].description")
    [] surface = "tool_input" -> Some("tools[*].inputSchema")
    [] OTHER -> None

\* {:02}: a number in at least two digits.
PadTwo(n) == IF n < 10 THEN <<"0">> \o IntToChars(n) ELSE IntToChars(n)

PhasePrefix == <<"p", "h", "a", "s", "e", "-">>
IndicatorPrefix == <<"i", "n", "d", "i", "c", "a", "t", "o", "r", "-">>
DefaultActorName == <<"d", "e", "f", "a", "u", "l", "t">>
ToolsKey == <<"t", "o", "o", "l", "s">>
InputSchemaKey == <<"i", "n", "p", "u", "t", "S", "c", "h", "e", "m", "a">>
DescriptionKey == <<"d", "e", "s", "c", "r", "i", "p", "t", "i", "o", "n">>
TypeKey == <<"t", "y", "p", "e">>
ObjectSchema == VObj(TypeKey :> VStr(<<"o", "b", "j", "e", "c", "t">>))

\* Option::unwrap_or_default on a string.
unwrap_or_default(o) == IF IsSome(o) THEN o.v ELSE << >>

\* N-006: the single-phase form becomes one actor `default` with one phase
\* `phase-1`.
n006_single_phase_to_multi_actor(doc) ==
  LET exec == doc.attack.execution
  IN IF IsSome(exec.state) /\ IsNone(exec.phases) /\ IsNone(exec.actors)
     THEN LET phase == [name |-> Some(PhasePrefix \o <<"1">>), mode |-> None,
                        state |-> exec.state, trigger |-> None]
              actor == [name |-> DefaultActorName,
                        mode |-> unwrap_or_default(exec.mode),
                        phases |-> <<phase>>]
          IN [doc EXCEPT !.attack.execution.actors = Some(<<actor>>),
                         !.attack.execution.state = None,
                         !.attack.execution.mode = None]
     ELSE doc

\* N-007: the multi-phase form becomes one actor `default`, whose mode is
\* the execution's, or else the first phase's.
n007_multi_phase_to_multi_actor(doc) ==
  LET exec == doc.attack.execution
  IN IF IsSome(exec.phases) /\ IsNone(exec.actors)
     THEN LET phases == exec.phases.v
              mode == IF IsSome(exec.mode) THEN exec.mode.v
                      ELSE IF phases # << >>
                      THEN unwrap_or_default(phases[1].mode)
                      ELSE << >>
              actor == [name |-> DefaultActorName, mode |-> mode,
                        phases |-> phases]
          IN [doc EXCEPT !.attack.execution.actors = Some(<<actor>>),
                         !.attack.execution.phases = None,
                         !.attack.execution.mode = None]
     ELSE doc

\* N-001 on the phases of one actor: names and trigger counts.
DefaultPhases(phases) ==
  [i \in 1..Len(phases) |->
     LET named == IF IsNone(phases[i].name)
                  THEN [phases[i] EXCEPT
                          !.name = Some(PhasePrefix \o IntToChars(i))]
                  ELSE phases[i]
     IN IF IsSome(named.trigger) /\ IsSome(named.trigger.v.event)
           /\ IsNone(named.trigger.v.count)
        THEN [named EXCEPT
                !.trigger = Some([event |-> named.trigger.v.event,
                                  count |-> Some(1)])]
        ELSE named]

\* N-001 on the indicators: the protocol of the execution's mode, or else of
\* the only actor's mode.
DefaultProtocols(indicators, exec) ==
  LET exec_protocol == IF IsSome(exec.mode)
                       THEN Some(extract_protocol(exec.mode.v)) ELSE None
      actor_protocol == IF IsSome(exec.actors) /\ Len(exec.actors.v) = 1
                        THEN Some(extract_protocol(exec.actors.v[1].mode))
                        ELSE None
      default_protocol == IF IsSome(exec_protocol) THEN exec_protocol
                          ELSE actor_protocol
  IN [i \in 1..Len(indicators) |->
        IF IsNone(indicators[i].protocol) /\ IsSome(default_protocol)
        THEN [indicators[i] EXCEPT !.protocol = default_protocol]
        ELSE indicators[i]]

\* N-001: the defaults.
n001_defaults(doc) ==
  LET a == doc.attack
      severity == IF IsSome(a.severity) /\ a.severity.v.form = "object"
                     /\ IsNone(a.severity.v.confidence)
                  THEN Some([a.severity.v EXCEPT !.confidence = Some(50)])
                  ELSE a.severity
      actors == IF IsSome(a.execution.actors)
                THEN Some([i \in 1..Len(a.execution.actors.v) |->
                             [a.execution.actors.v[i] EXCEPT
                                !.phases = DefaultPhases(@)]])
                ELSE None
      execution == [a.execution EXCEPT !.actors = actors]
      indicators == IF IsSome(a.indicators)
                    THEN Some(DefaultProtocols(a.indicators.v, execution))
                    ELSE None
      correlation == IF IsSome(a.indicators)
                     THEN IF IsNone(a.correlation)
                          THEN Some([logic |-> Some("any")])
                          ELSE IF IsNone(a.correlation.v.logic)
                          THEN Some([logic |-> Some("any")])
                          ELSE a.correlation
                     ELSE a.correlation
      classification ==
        IF IsSome(a.classification) /\ IsSome(a.classification.v.mappings)
        THEN Some([mappings |->
               Some([i \in 1..Len(a.classification.v.mappings.v) |->
                       IF IsNone(a.classification.v.mappings.v[i].relationship)
                       THEN [relationship |-> Some("primary")]
                       ELSE a.classification.v.mappings.v[i]])])
        ELSE a.classification
  IN [attack |->
        [a EXCEPT !.name = IF IsNone(@) THEN Some("Untitled") ELSE @,
                  !.version = IF IsNone(@) THEN Some(1) ELSE @,
                  !.status = IF IsNone(@) THEN Some("draft") ELSE @,
                  !.severity = severity,
                  !.execution = execution,
                  !.indicators = indicators,
                  !.correlation = correlation,
                  !.classification = classification]]

\* N-002: a scalar severity, or an object without confidence, becomes an
\* object with confidence 50.
n002_severity_expansion(doc) ==
  LET severity == doc.attack.severity
  IN IF IsSome(severity)
        /\ (severity.v.form = "scalar" \/ IsNone(severity.v.confidence))
     THEN [doc EXCEPT !.attack.severity =
             Some([form |-> "object", level |-> severity.v.level,
                   confidence |-> Some(50)])]
     ELSE doc

\* N-003: an indicator without id gets `{attack id}-NN` or `indicator-NN`.
n003_auto_generate_indicator_ids(doc) ==
  LET indicators == doc.attack.indicators
      Generated(i) == IF IsSome(doc.attack.id)
                      THEN doc.attack.id.v \o <<"-">> \o PadTwo(i)
                      ELSE IndicatorPrefix \o PadTwo(i)
  IN IF IsSome(indicators)
     THEN [doc EXCEPT !.attack.indicators =
             Some([i \in 1..Len(indicators.v) |->
                     IF IsNone(indicators.v[i].id)
                     THEN [indicators.v[i] EXCEPT !.id = Some(Generated(i))]
                     ELSE indicators.v[i]])]
     ELSE doc

\* N-004 on one indicator: a pattern or semantic without target gets the
\* default target of a registered surface.
ResolveTargets(ind) ==
  LET surface_entry == lookup_surface(ind.surface)
      Targeted(m) == IF IsSome(m) /\ IsNone(m.v.target) /\ IsSome(surface_entry)
                     THEN Some([m.v EXCEPT !.target = surface_entry])
                     ELSE m
  IN [ind EXCEPT !.pattern = Targeted(@), !.semantic = Targeted(@)]

n004_resolve_targets(doc) ==
  IF IsSome(doc.attack.indicators)
  THEN [doc EXCEPT !.attack.indicators = Some(MapSeq(ResolveTargets, @.v))]
  ELSE doc

\* PatternMatch::is_shorthand: no condition, and an operator key present.
is_shorthand(pattern) ==
  /\ IsNone(pattern.condition)
  /\ (IsSome(pattern.contains) \/ IsSome(pattern.regex) \/ IsSome(pattern.gt))

\* N-005 on one indicator: the operator keys of a shorthand pattern are
\* taken into a condition.
ExpandShorthand(ind) ==
  IF IsSome(ind.pattern) /\ is_shorthand(ind.pattern.v)
  THEN [ind EXCEPT !.pattern =
          Some([target |-> @.v.target,
                condition |-> Some([contains |-> @.v.contains,
                                    regex |-> @.v.regex,
                                    gt |-> @.v.gt,
                                    exists |-> None]),
                contains |-> None, regex |-> None, gt |-> None])]
  ELSE ind

n005_expand_pattern_shorthand(doc) ==
  IF IsSome(doc.attack.indicators)
  THEN [doc EXCEPT !.attack.indicators = Some(MapSeq(ExpandShorthand, @.v))]
  ELSE doc

\* One tool with its defaults: inputSchema {"type": "object"} and
\* description "" where the key is absent.
ToolDefaults(tool) ==
  IF tool.k = "obj"
  THEN LET with_schema == IF InputSchemaKey \in DOMAIN tool.o THEN tool.o
                          ELSE tool.o @@ (InputSchemaKey :> ObjectSchema)
       IN VObj(IF DescriptionKey \in DOMAIN with_schema THEN with_schema
               ELSE with_schema @@ (DescriptionKey :> VStr(<< >>)))
  ELSE tool

\* apply_mcp_tool_defaults: the defaults of every tool of the array `tools`.
apply_mcp_tool_defaults(st) ==
  IF st.k = "obj" /\ ToolsKey \in DOMAIN st.o /\ st.o[ToolsKey].k = "arr"
  THEN VObj([st.o EXCEPT ![ToolsKey] = VArr(MapSeq(ToolDefaults, @.a))])
  ELSE st

\* N-008: the tool defaults in every phase of every actor of mode
\* mcp_server.
n008_mcp_tool_defaults(doc) ==
  LET PhaseDefaults(phase) ==
        IF IsSome(phase.state)
        THEN [phase EXCEPT !.state = Some(apply_mcp_tool_defaults(@.v))]
        ELSE phase
      ActorDefaults(actor) ==
        IF actor.mode # McpServer THEN actor
        ELSE [actor EXCEPT !.phases = MapSeq(PhaseDefaults, @)]
  IN IF IsSome(doc.attack.execution.actors)
     THEN [doc EXCEPT !.attack.execution.actors =
             Some(MapSeq(ActorDefaults, @.v))]
     ELSE doc

normalize_DefaultsFirst(doc) ==
  n008_mcp_tool_defaults(n005_expand_pattern_shorthand(n004_resolve_targets(
    n003_auto_generate_indicator_ids(n002_severity_expansion(
      n007_multi_phase_to_multi_actor(n006_single_phase_to_multi_actor(
        n001_defaults(doc))))))))

\* normalize: N-006, N-007, N-001, N-002, N-003, N-004, N-005, N-008.
normalize(doc) ==
  n008_mcp_tool_defaults(n005_expand_pattern_shorthand(n004_resolve_targets(
    n003_auto_generate_indicator_ids(n002_severity_expansion(n001_defaults(
      n007_multi_phase_to_multi_actor(
        n006_single_phase_to_multi_actor(doc))))))))

\* The documents of the model.
MaxDocPhases == 2
NameKey == <<"n", "a", "m", "e">>
ToolsMissing ==
  VObj(ToolsKey :> VArr(<<VObj(NameKey :> VStr(<<"t">>)), VStr(<<"u">>)>>))
ToolsComplete ==
  VObj(ToolsKey :> VArr(<<VObj((NameKey :> VStr(<<"t">>))
                               @@ (DescriptionKey :> VStr(<<"d">>))
                               @@ (InputSchemaKey :> ObjectSchema))>>))
EventCall == <<"t", "o", "o", "l", "s", "/", "c", "a", "l", "l">>
PhaseChoices ==
  {[name |-> None, mode |-> None, state |-> None, trigger |-> None],
   [name |-> Some(<<"e", "x">>), mode |-> None, state |-> Some(ToolsMissing),
    trigger |-> Some([event |-> Some(EventCall), count |-> None])],
   [name |-> None, mode |-> Some(McpServer), state |-> Some(ToolsComplete),
    trigger |-> Some([event |-> Some(EventCall), count |-> Some(2)])],
   [name |-> Some(<<"t">>), mode |-> Some(A2aClient),
    state |-> Some(VStr(<<"s">>)),
    trigger |-> Some([event |-> None, count |-> None])]}
RECURSIVE DocPhasesOfLen(_)
DocPhasesOfLen(n) ==
  IF n = 0 THEN {<< >>}
  ELSE {<<p>> \o l : p \in PhaseChoices, l \in DocPhasesOfLen(n - 1)}
DocPhaseLists == UNION {DocPhasesOfLen(n) : n \in 0..MaxDocPhases}
DocModes == {None, Some(McpServer), Some(A2aClient)}
ActorChoices ==
  {[name |-> <<"a">>, mode |-> m.v, phases |-> l] :
     m \in DocModes \ {None}, l \in DocPhasesOfLen(0) \cup DocPhasesOfLen(1)}
SecondActor ==
  [name |-> <<"b">>, mode |-> McpServer,
   phases |-> <<[name |-> None, mode |-> None, state |-> Some(ToolsMissing),
                 trigger |-> None]>>]
Executions ==
  {[mode |-> m, state |-> Some(s), phases |-> None, actors |-> None] :
     m \in DocModes, s \in {ToolsMissing, ToolsComplete, VNull}}
  \cup {[mode |-> m, state |-> None, phases |-> Some(l), actors |-> None] :
          m \in DocModes, l \in DocPhaseLists}
  \cup {[mode |-> m, state |-> None, phases |-> None, actors |-> Some(l)] :
          m \in {None, Some(A2aClient)},
          l \in {<<a>> : a \in ActorChoices}
                \cup {<<a, SecondActor>> : a \in ActorChoices}}
  \cup {[mode |-> Some(McpServer), state |-> Some(ToolsMissing),
         phases |-> p, actors |-> a] :
          p \in {None, Some(<<SecondActor.phases[1]>>)},
          a \in {None, Some(<<SecondActor>>)}}

NoPattern ==
  [target |-> None, condition |-> None, contains |-> None, regex |-> None,
   gt |-> None]
DocIndicators ==
  {[id |-> None, protocol |-> None, surface |-> "tool_description",
    pattern |-> Some([NoPattern EXCEPT !.contains = Some(<<"m">>)]),
    semantic |-> None],
   [id |-> Some(<<"x">>), protocol |-> Some(<<"a", "2", "a">>),
    surface |-> "unregistered",
    pattern |-> Some([NoPattern EXCEPT
                        !.condition = Some([contains |-> None,
                                            regex |-> Some(<<"r">>),
                                            gt |-> None, exists |-> Some(TRUE)]),
                        !.regex = Some(<<"s">>)]),
    semantic |-> None],
   [id |-> None, protocol |-> None, surface |-> "tool_input",
    pattern |-> None, semantic |-> Some([target |-> None])],
   [id |-> None, protocol |-> Some(<<"m", "c", "p">>),
    surface |-> "tool_input",
    pattern |-> Some([NoPattern EXCEPT !.target = Some("t"), !.gt = Some(1)]),
    semantic |-> Some([target |-> Some("u")])],
   [id |-> None, protocol |-> None, surface |-> "unregistered",
    pattern |-> Some(NoPattern), semantic |-> None]}
DocIndicatorLists ==
  {None, Some(<< >>)}
  \cup {Some(<<i>>) : i \in DocIndicators}
  \cup {Some(<<i, j>>) : i \in DocIndicators,
          j \in {k \in DocIndicators : k.surface = "tool_description"}}
Severities ==
  {None, Some([form |-> "scalar", level |-> "high"]),
   Some([form |-> "object", level |-> "low", confidence |-> None]),
   Some([form |-> "object", level |-> "low", confidence |-> Some(80)])}
Headers ==
  {[id |-> None, name |-> None, version |-> None, status |-> None,
    correlation |-> None, classification |-> None],
   [id |-> Some(<<"A">>), name |-> Some("n"), version |-> Some(2),
    status |-> Some("stable"), correlation |-> Some([logic |-> None]),
    classification |-> Some([mappings |-> None])],
   [id |-> None, name |-> Some("n"), version |-> None,
    status |-> Some("stable"), correlation |-> Some([logic |-> Some("all")]),
    classification |->
      Some([mappings |-> Some(<<[relationship |-> None],
                                [relationship |-> Some("related")]>>)])]}
Documents ==
  {[attack |-> [id |-> h.id, name |-> h.name, version |-> h.version,
                status |-> h.status, severity |-> s, execution |-> e,
                indicators |-> i, correlation |-> h.correlation,
                classification |-> h.classification]] :
     h \in Headers, s \in Severities, e \in Executions,
     i \in DocIndicatorLists}

InitNormalize ==
  /\ arguments \in {Some([doc |-> d]) : d \in Documents}
  /\ returned = None
  /\ condition = None
  /\ predicate = None
  /\ path = None
  /\ value = VNull
  /\ TriggerIdle
  /\ VerdictIdle
  /\ IndicatorIdle

\* let n1 = normalize(doc).
Normalize ==
  /\ IsSome(arguments)
  /\ IsNone(returned)
  /\ returned' = Some([calls |-> 1, doc |-> normalize(arguments.v.doc),
                       previous |-> arguments.v.doc])
  /\ UNCHANGED <<condition, predicate, path, value, arguments,
                 trigger_vars, verdict_vars, indicator_vars>>

\* let n2 = normalize(n1.clone()).
NormalizeAgain ==
  /\ IsSome(returned)
  /\ returned.v.calls = 1
  /\ returned' = Some([calls |-> 2, doc |-> normalize(returned.v.doc),
                       previous |-> returned.v.doc])
  /\ UNCHANGED <<condition, predicate, path, value, arguments,
                 trigger_vars, verdict_vars, indicator_vars>>

NextNormalize == Normalize \/ NormalizeAgain

SpecNormalize == InitNormalize /\ [][NextNormalize]_vars

\* ------------------------------------------------------------------------
\* Properties of the trigger state machine
\* ------------------------------------------------------------------------

\* The last call, as an outcome of evaluate_trigger.
LastOutcome == Outcome(last.panicked, last.result, state.event_count)

\* The count the trigger requires: trigger.count, default 1.
RequiredN == IF IsSome(trigger.count) THEN trigger.count.v ELSE 1

\* The last call was made with no timeout due and a fully matching event.
LastFullyMatched ==
  /\ last.called
  /\ ~TimeoutDue(trigger, last.elapsed)
  /\ FullyMatches(trigger, last.event, protocol)

\* The trigger as it would be with no `after`.
WithoutAfter == [trigger EXCEPT !.after = None]

\* The outcomes the last call would have had on the trigger `trig`.
OutcomesOn(trig) ==
  evaluate_trigger(trig, last.event, last.elapsed,
                   [event_count |-> last.before], protocol)

\* An event_count is at least the signed count n.
AtLeast(event_count, n) == n <= 0 \/ BigLe(BigFromNat(n), event_count)

\* C1: every call made with no timeout due and a fully matching event
\* raises event_count by exactly one and returns Advanced(event_matched)
\* iff the raised count is at least the required count (trigger.count,
\* default 1), else NotAdvanced.
C1_EveryMatchCounts ==
  LastFullyMatched =>
    /\ ~last.panicked
    /\ state.event_count = BigSucc(last.before)
    /\ last.result = IF AtLeast(state.event_count, RequiredN)
                     THEN Advanced("EventMatched") ELSE NotAdvanced

\* The consequence drawn from it, which holds: on an instance started at
\* event_count = 0 whose trigger requires n >= 1 events, event_count is the
\* number of fully matching calls made with no timeout due, and
\* Advanced(event_matched) is returned on the n-th such call and on every
\* later one, and on no other call.
CountReachesThreshold_FromZero ==
  (origin = <<0>> /\ RequiredN >= 1) =>
    /\ state.event_count = BigFromNat(full_matches)
    /\ LastFullyMatched =>
         /\ ~last.panicked
         /\ state.event_count = BigSucc(last.before)
         /\ IF full_matches >= RequiredN
            THEN last.result = Advanced("EventMatched")
            ELSE last.result = NotAdvanced
    /\ last.result = Advanced("EventMatched") =>
         LastFullyMatched /\ full_matches >= RequiredN

\* A trigger with count 3, started at 0, after its fourth fully matching
\* call, which advanced as the third did.
FourthMatchAdvances ==
  /\ origin = <<0>>
  /\ trigger.count = Some(3)
  /\ full_matches = 4
  /\ state.event_count = <<4>>
  /\ last.result = Advanced("EventMatched")

\* C2: when `after` parses to d and elapsed >= d the call returns
\* Advanced(timeout) and leaves event_count as it was, whatever the event
\* and the trigger's other fields; when `after` parses and elapsed < d the
\* call does what it does on the same trigger without `after`.
C2_TimeoutShortCircuits ==
  last.called =>
    /\ TimeoutDue(trigger, last.elapsed) =>
         /\ ~last.panicked
         /\ last.result = Advanced("Timeout")
         /\ state.event_count = last.before
    /\ (/\ IsSome(trigger.after)
        /\ parse_duration(trigger.after.v).ok
        /\ ~TimeoutDue(trigger, last.elapsed)) =>
         LastOutcome \in OutcomesOn(WithoutAfter)

\* C2 witness: the timeout fired on a call whose event fully matched.
C2_Witness ==
  /\ last.called
  /\ TimeoutDue(trigger, last.elapsed)
  /\ FullyMatches(trigger, last.event, protocol)
  /\ last.result = Advanced("Timeout")
  /\ state.event_count = last.before

\* The three ways an observed event fails to match a trigger that names an
\* event.
BaseDiffers(trig, ev) ==
  parse_event_qualifier(trig.event.v).base
    # parse_event_qualifier(ev.event_type).base
QualifierDiffers(trig, ev, proto) ==
  /\ IsSome(parse_event_qualifier(trig.event.v).qualifier)
  /\ EventQualifier(ev, proto) # parse_event_qualifier(trig.event.v).qualifier
PredicateFails(trig, ev) ==
  /\ IsSome(trig.match_predicate)
  /\ ~evaluate_predicate(trig.match_predicate.v, ev.content)

\* C3: with no timeout due, a call whose event differs from the trigger's in
\* its base event, or fails the trigger's qualifier, or fails the match
\* predicate, returns NotAdvanced and leaves event_count as it was.
C3_NonMatchingLeavesCount ==
  (/\ last.called
   /\ ~TimeoutDue(trigger, last.elapsed)
   /\ IsSome(trigger.event)
   /\ IsSome(last.event)
   /\ \/ BaseDiffers(trigger, last.event.v)
      \/ QualifierDiffers(trigger, last.event.v, protocol)
      \/ PredicateFails(trigger, last.event.v)) =>
    /\ ~last.panicked
    /\ last.result = NotAdvanced
    /\ state.event_count = last.before

\* C3 witness: between matching calls, an event of the right base and
\* qualifier failed the predicate and the count stayed where it was.
C3_Witness ==
  /\ last.called
  /\ full_matches = 2
  /\ IsSome(trigger.event)
  /\ IsSome(last.event)
  /\ ~BaseDiffers(trigger, last.event.v)
  /\ ~QualifierDiffers(trigger, last.event.v, protocol)
  /\ PredicateFails(trigger, last.event.v)
  /\ last.result = NotAdvanced
  /\ state.event_count = <<2>>

\* C4: every call completes with a TriggerResult and either leaves
\* event_count unchanged or makes it exactly one larger, from every value
\* the counter can hold.
C4_CountNeverResets ==
  last.called =>
    /\ ~last.panicked
    /\ \/ state.event_count = last.before
       \/ state.event_count = BigSucc(last.before)

\* Splitting on the first ':' stated on the pieces of a split on every ':':
\* the base is the first piece, the qualifier all that follows its ':'.
SplitFirstColon(s) ==
  LET base == Head(SplitOn(s, ":"))
  IN [base |-> base,
      qualifier |-> IF Len(base) = Len(s) THEN None
                    ELSE Some(SubSeq(s, Len(base) + 2, Len(s)))]

\* The last call counted its event: the count moved, or the addition
\* overflowed.
LastCounted == last.panicked \/ state.event_count # last.before

\* C5: with no timeout due and both events present, the bases (the text
\* before the first ':') must be equal; a trigger qualifier q is matched by
\* the event's own qualifier when it has one (a different own qualifier
\* gives NotAdvanced whatever the registry would resolve) and else by the
\* registry's resolution (none, or a different one, gives NotAdvanced); a
\* trigger without qualifier matches every qualifier of the same base.
C5_QualifierResolution ==
  (/\ last.called
   /\ ~TimeoutDue(trigger, last.elapsed)
   /\ IsSome(trigger.event)
   /\ IsSome(last.event)) =>
    LET t == SplitFirstColon(trigger.event.v)
        e == SplitFirstColon(last.event.v.event_type)
        ev == last.event.v
        resolved == resolve_event_qualifier(protocol, e.base, ev.content)
        unchanged == /\ ~last.panicked
                     /\ last.result = NotAdvanced
                     /\ state.event_count = last.before
        predicate_ok == IsSome(trigger.match_predicate) =>
                          evaluate_predicate(trigger.match_predicate.v, ev.content)
    IN /\ t.base # e.base => unchanged
       /\ (IsSome(t.qualifier) /\ IsSome(ev.qualifier)
             /\ ev.qualifier.v # t.qualifier.v) => unchanged
       /\ (IsSome(t.qualifier) /\ IsNone(ev.qualifier)
             /\ resolved # t.qualifier) => unchanged
       /\ (/\ t.base = e.base
           /\ predicate_ok
           /\ \/ IsNone(t.qualifier)
              \/ ev.qualifier = t.qualifier
              \/ IsNone(ev.qualifier) /\ resolved = t.qualifier) => LastCounted

\* C5 witness: a trigger with a qualifier counted an event that has no
\* qualifier of its own, on the registry's resolution.
C5_Witness ==
  /\ last.called
  /\ IsSome(trigger.event)
  /\ IsSome(last.event)
  /\ IsSome(SplitFirstColon(trigger.event.v).qualifier)
  /\ IsNone(last.event.v.qualifier)
  /\ state.event_count = BigSucc(last.before)

\* C6: an `after` that does not parse never yields Advanced(timeout), and
\* the call does what it does on the same trigger without `after`; and
\* with no timeout due, a call on a trigger without `event`, or with no
\* observed event, returns NotAdvanced and leaves event_count as it was.
C6_BadTimeoutFailsClosed ==
  last.called =>
    /\ (IsSome(trigger.after) /\ ~parse_duration(trigger.after.v).ok) =>
         /\ last.result # Advanced("Timeout")
         /\ LastOutcome \in OutcomesOn(WithoutAfter)
    /\ (/\ ~TimeoutDue(trigger, last.elapsed)
        /\ IsNone(trigger.event) \/ IsNone(last.event)) =>
         /\ ~last.panicked
         /\ last.result = NotAdvanced
         /\ state.event_count = last.before

\* C6 witness: a trigger whose `after` is "2x" advanced on its event at an
\* elapsed time of 2 s.
C6_Witness ==
  /\ last.called
  /\ trigger.after = Some(<<"2", "x">>)
  /\ last.elapsed = [secs |-> <<2>>, nanos |-> 0]
  /\ last.result = Advanced("EventMatched")

\* ------------------------------------------------------------------------
\* Properties of the verdict correlation
\* ------------------------------------------------------------------------

\* The declared indicators of the attack (none when the list is absent).
Declared == IF IsSome(attack.indicators) THEN attack.indicators.v ELSE << >>

\* The key under which the i-th declared indicator is looked up.
KeyOf(i) == IF IsSome(Declared[i].id) THEN Declared[i].id.v ELSE ""

\* The i-th declared indicator has an entry in the map with result r.
HasVerdict(i, r) ==
  KeyOf(i) \in DOMAIN indicator_verdicts /\ indicator_verdicts[KeyOf(i)].result = r

\* The result that counts for the i-th declared indicator.
ResultOf(i) ==
  IF KeyOf(i) \in DOMAIN indicator_verdicts
  THEN indicator_verdicts[KeyOf(i)].result ELSE "skipped"

\* How many declared indicators count with result r.
CountOf(r) == Cardinality({i \in 1..Len(Declared) : ResultOf(i) = r})

\* The logic in force: that of the correlation, `any` when none is given.
LogicInForce ==
  IF attack.correlation \in {Some([logic |-> Some("any")]),
                             Some([logic |-> Some("all")])}
  THEN attack.correlation.v.logic.v ELSE "any"

\* C7: under `any` (also the default), with the indicator list present, the
\* verdict is error when a declared indicator's verdict is error; otherwise
\* exploited when one is matched; otherwise not_exploited.
C7_AnyLogic ==
  (IsSome(verdict) /\ IsSome(attack.indicators) /\ LogicInForce = "any") =>
    verdict.v.result =
      IF \E i \in 1..Len(Declared) : HasVerdict(i, "error") THEN "error"
      ELSE IF \E i \in 1..Len(Declared) : HasVerdict(i, "matched") THEN "exploited"
      ELSE "not_exploited"

\* C7 witness: no correlation given, one declared indicator matched and
\* another in error, and the verdict is error.
C7_Witness ==
  /\ IsSome(verdict)
  /\ IsNone(attack.correlation)
  /\ IsSome(attack.indicators)
  /\ \E i \in 1..Len(Declared) : HasVerdict(i, "matched")
  /\ \E i \in 1..Len(Declared) : HasVerdict(i, "error")
  /\ verdict.v.result = "error"

\* C8: under `all`, with the indicator list present, the verdict is error
\* when the error count is positive; otherwise exploited when the matched
\* count is positive and the not_matched and skipped counts (indicators
\* without an entry counting as skipped) are zero; otherwise partial when
\* the matched count is positive; otherwise not_exploited.
C8_AllLogic ==
  (IsSome(verdict) /\ IsSome(attack.indicators) /\ LogicInForce = "all") =>
    verdict.v.result =
      IF CountOf("error") > 0 THEN "error"
      ELSE IF CountOf("matched") > 0 /\ CountOf("not_matched") = 0
                /\ CountOf("skipped") = 0
      THEN "exploited"
      ELSE IF CountOf("matched") > 0 THEN "partial"
      ELSE "not_exploited"

\* C8 witness: under `all`, every declared indicator either matched or has
\* no entry in the map, both kinds occur, and the verdict is partial.
C8_Witness ==
  /\ IsSome(verdict)
  /\ LogicInForce = "all"
  /\ IsSome(attack.indicators)
  /\ \E i \in 1..Len(Declared) : HasVerdict(i, "matched")
  /\ \E i \in 1..Len(Declared) : KeyOf(i) \notin DOMAIN indicator_verdicts
  /\ \A i \in 1..Len(Declared) : ResultOf(i) \in {"matched", "skipped"}
  /\ verdict.v.result = "partial"

ZeroSummary == [matched |-> 0, not_matched |-> 0, error |-> 0, skipped |-> 0]

\* C9: an attack without an indicator list gets the verdict error, with no
\* indicator verdicts and a summary of zeros, whatever the map holds; an
\* attack with an empty indicator list gets not_exploited under either
\* logic, with the same empty list and zero summary.
C9_MissingVersusEmpty ==
  IsSome(verdict) =>
    /\ IsNone(attack.indicators) =>
         /\ verdict.v.result = "error"
         /\ verdict.v.indicator_verdicts = << >>
         /\ verdict.v.evaluation_summary = ZeroSummary
    /\ attack.indicators = Some(<< >>) =>
         /\ verdict.v.result = "not_exploited"
         /\ verdict.v.indicator_verdicts = << >>
         /\ verdict.v.evaluation_summary = ZeroSummary

\* C9 witness: no indicator list, a map that holds a matched entry, and the
\* verdict is error.
C9_Witness ==
  /\ IsSome(verdict)
  /\ IsNone(attack.indicators)
  /\ \E key \in DOMAIN indicator_verdicts :
       indicator_verdicts[key].result = "matched"
  /\ verdict.v.result = "error"

\* The map without the entries whose key is the key of no declared indicator.
DeclaredEntriesOnly ==
  [key \in {k \in DOMAIN indicator_verdicts :
              \E i \in 1..Len(Declared) : KeyOf(i) = k}
     |-> indicator_verdicts[key]]

\* C10: with the indicator list present, the verdict lists one indicator
\* verdict per declared indicator, in declaration order: the map's entry,
\* or, when there is none, a skipped verdict with the evidence "No
\* evaluation result provided"; each count of the summary is the number of
\* declared indicators with that result, so the counts add up to the number
\* of declared indicators; and the map's entries for undeclared ids change
\* nothing in the verdict.
C10_EveryIndicatorTallied ==
  (IsSome(verdict) /\ IsSome(attack.indicators)) =>
    /\ Len(verdict.v.indicator_verdicts) = Len(Declared)
    /\ \A i \in 1..Len(Declared) :
         LET v == verdict.v.indicator_verdicts[i]
         IN IF KeyOf(i) \in DOMAIN indicator_verdicts
            THEN v = indicator_verdicts[KeyOf(i)]
            ELSE /\ v.indicator_id = KeyOf(i)
                 /\ v.result = "skipped"
                 /\ v.evidence = Some("No evaluation result provided")
    /\ \A r \in IndicatorResults : verdict.v.evaluation_summary[r] = CountOf(r)
    /\ verdict.v.evaluation_summary.matched
         + verdict.v.evaluation_summary.not_matched
         + verdict.v.evaluation_summary.error
         + verdict.v.evaluation_summary.skipped = Len(Declared)
    /\ verdict.v = compute_verdict(attack, DeclaredEntriesOnly)

\* C10 witness: three declared indicators, the first in error, a later one
\* without an entry, and an entry in the map for an undeclared id.
C10_Witness ==
  /\ IsSome(verdict)
  /\ IsSome(attack.indicators)
  /\ Len(Declared) = 3
  /\ HasVerdict(1, "error")
  /\ \E i \in 2..3 : KeyOf(i) \notin DOMAIN indicator_verdicts
  /\ "zz" \in DOMAIN indicator_verdicts
  /\ verdict.v.evaluation_summary.error >= 1
  /\ verdict.v.evaluation_summary.skipped >= 1

\* ------------------------------------------------------------------------
\* Properties of indicator evaluation
\* ------------------------------------------------------------------------

\* The indicator with every detection key removed but the first present one
\* in the order pattern, expression, semantic.
FirstKeyOnly ==
  IF IsSome(indicator.pattern)
  THEN [indicator EXCEPT !.expression = None, !.semantic = None]
  ELSE IF IsSome(indicator.expression)
  THEN [indicator EXCEPT !.semantic = None]
  ELSE indicator

\* C11: the verdict carries the indicator's id; the first present key in
\* the order pattern, expression, semantic decides, the verdict and the
\* evaluator calls being those of the indicator without its other keys; an
\* expression indicator with no cel_evaluator is skipped with evidence, a
\* semantic indicator with no semantic_evaluator is skipped, and an
\* indicator with no detection key gets error with evidence.
C11_DispatchOrder ==
  IsSome(indicator_verdict) =>
    /\ indicator_verdict.v.indicator_id =
         (IF IsSome(indicator.id) THEN indicator.id.v ELSE "")
    /\ indicator_verdict.v.result \in IndicatorResults
    /\ indicator_verdict.v =
         evaluate_indicator(FirstKeyOnly, message, cel_evaluator,
                            semantic_evaluator)
    /\ evaluator_calls =
         EvaluatorCalls(FirstKeyOnly, message, cel_evaluator, semantic_evaluator)
    /\ IsSome(indicator.pattern) => evaluator_calls = NoCalls
    /\ (IsNone(indicator.pattern) /\ IsSome(indicator.expression)) =>
         /\ evaluator_calls.semantic = << >>
         /\ IsNone(cel_evaluator) =>
              /\ indicator_verdict.v.result = "skipped"
              /\ IsSome(indicator_verdict.v.evidence)
    /\ (/\ IsNone(indicator.pattern) /\ IsNone(indicator.expression)
        /\ IsSome(indicator.semantic) /\ IsNone(semantic_evaluator)) =>
         indicator_verdict.v.result = "skipped"
    /\ (/\ IsNone(indicator.pattern) /\ IsNone(indicator.expression)
        /\ IsNone(indicator.semantic)) =>
         /\ indicator_verdict.v.result = "error"
         /\ IsSome(indicator_verdict.v.evidence)

\* C11 witness: an indicator with all three keys, evaluated with a CEL
\* evaluator that fails on everything, is matched by its pattern.
C11_Witness ==
  /\ IsSome(indicator_verdict)
  /\ IsSome(indicator.pattern)
  /\ IsSome(indicator.expression)
  /\ IsSome(indicator.semantic)
  /\ cel_evaluator = Some(CelFailing)
  /\ IsSome(semantic_evaluator)
  /\ indicator_verdict.v.result = "matched"

\* The values the pattern's target resolves to.
PatternResolved ==
  resolve_wildcard_path(
    IF IsSome(indicator.pattern.v.target) THEN indicator.pattern.v.target.v
    ELSE << >>, message)

\* The pattern's condition passes on the value x.
PatternPasses(x) ==
  /\ IsSome(indicator.pattern.v.condition)
  /\ evaluate_condition(indicator.pattern.v.condition.v, x)

\* C12: a pattern indicator is not_matched when its target resolves to
\* nothing; otherwise matched iff the condition passes for at least one
\* resolved value, not_matched when for none; and the verdict is the same
\* with or without the evaluators, none of which is called.
C12_PatternAnyValue ==
  (IsSome(indicator_verdict) /\ IsSome(indicator.pattern)) =>
    /\ indicator_verdict.v.result =
         IF \E i \in 1..Len(PatternResolved) : PatternPasses(PatternResolved[i])
         THEN "matched" ELSE "not_matched"
    /\ PatternResolved = << >> => indicator_verdict.v.result = "not_matched"
    /\ indicator_verdict.v = evaluate_indicator(indicator, message, None, None)
    /\ evaluator_calls = NoCalls

\* C12 witness: the target resolves to two values, the condition passes on
\* the second only, both evaluators are present, and the verdict is matched.
C12_Witness ==
  /\ IsSome(indicator_verdict)
  /\ IsSome(indicator.pattern)
  /\ IsSome(cel_evaluator)
  /\ IsSome(semantic_evaluator)
  /\ Len(PatternResolved) = 2
  /\ ~PatternPasses(PatternResolved[1])
  /\ PatternPasses(PatternResolved[2])
  /\ indicator_verdict.v.result = "matched"

\* The expression decides, and a CEL evaluator is there.
ExpressionEvaluated ==
  /\ IsSome(indicator_verdict)
  /\ IsNone(indicator.pattern)
  /\ IsSome(indicator.expression)
  /\ IsSome(cel_evaluator)

\* The declared variables of the expression.
DeclaredVariables ==
  IF IsSome(indicator.expression.v.variables)
  THEN indicator.expression.v.variables.v ELSE EmptyMap

\* C13: the evaluator is handed one context, which binds `message` to the
\* message and every declared variable to what its path resolves to, null
\* when it does not resolve; true / false gives matched / not_matched, and
\* a non-boolean result or an evaluator error gives error with the error's
\* message as evidence.
C13_ExpressionContext ==
  ExpressionEvaluated =>
    /\ Len(evaluator_calls.cel) = 1
    /\ LET context == evaluator_calls.cel[1].o
           out == cel_evaluate(cel_evaluator.v, indicator.expression.v.cel,
                               evaluator_calls.cel[1])
       IN /\ DOMAIN context = {MessageKey} \cup DOMAIN DeclaredVariables
          /\ context[MessageKey] = message
          /\ \A name \in DOMAIN DeclaredVariables :
               LET r == resolve_simple_path(DeclaredVariables[name], message)
               IN context[name] = IF IsSome(r) THEN r.v ELSE VNull
          /\ indicator_verdict.v.result =
               IF ~out.ok THEN "error"
               ELSE IF out.v = VBool(TRUE) THEN "matched"
               ELSE IF out.v = VBool(FALSE) THEN "not_matched"
               ELSE "error"
          /\ ~out.ok => indicator_verdict.v.evidence = Some(out.message)
          /\ (out.ok /\ out.v.k # "bool") =>
               indicator_verdict.v.evidence = Some(NonBooleanMessage(out.v))

\* What holds of the context whatever the variables are named: every
\* declared variable is bound as C13 says, and `message` is bound to the
\* message unless a variable is named message.
ExpressionContext_VariablesBound ==
  ExpressionEvaluated =>
    LET context == evaluator_calls.cel[1].o
    IN /\ \A name \in DOMAIN DeclaredVariables :
            LET r == resolve_simple_path(DeclaredVariables[name], message)
            IN context[name] = IF IsSome(r) THEN r.v ELSE VNull
       /\ MessageKey \notin DOMAIN DeclaredVariables =>
            context[MessageKey] = message

\* The semantic key decides, and a semantic evaluator is there.
SemanticEvaluated ==
  /\ IsSome(indicator_verdict)
  /\ IsNone(indicator.pattern)
  /\ IsNone(indicator.expression)
  /\ IsSome(indicator.semantic)
  /\ IsSome(semantic_evaluator)

\* The values the semantic target resolves to, the root for no target.
SemanticValues ==
  IF IsNone(indicator.semantic.v.target) THEN <<message>>
  ELSE resolve_wildcard_path(indicator.semantic.v.target.v, message)

\* What the evaluator returns on the i-th resolved value.
ScoreOf(i) ==
  semantic_evaluate(semantic_evaluator.v,
                    SemanticCall(indicator.semantic.v,
                                 value_to_text(SemanticValues[i])))

\* The threshold in force: 0.7 when none is given.
ThresholdInForce ==
  IF IsSome(indicator.semantic.v.threshold) THEN indicator.semantic.v.threshold.v
  ELSE 70

\* C14: the evaluator is called once per resolved value, in order, on the
\* value's text; if it fails on a value the verdict is error and no later
\* value is evaluated; otherwise the verdict is matched iff the highest
\* score is at least the threshold (0.7 when absent), else not_matched.
C14_SemanticMaxScore ==
  SemanticEvaluated =>
    LET n == Len(SemanticValues)
        failing == {i \in 1..n : ~ScoreOf(i).ok}
    IN IF failing = {}
       THEN /\ Len(evaluator_calls.semantic) = n
            /\ \A i \in 1..n :
                 evaluator_calls.semantic[i].text = value_to_text(SemanticValues[i])
            /\ indicator_verdict.v.result =
                 IF \E i \in 1..n :
                      \A j \in 1..n : ScoreOf(i).v >= ScoreOf(j).v
                                      /\ ScoreOf(i).v >= ThresholdInForce
                 THEN "matched" ELSE "not_matched"
       ELSE LET first == CHOOSE i \in failing : \A j \in failing : i <= j
            IN /\ indicator_verdict.v.result = "error"
               /\ Len(evaluator_calls.semantic) = first

\* C14 witness: no threshold given, two resolved values scored 0.69 and
\* 0.70, two calls, and the verdict is matched.
C14_Witness ==
  /\ SemanticEvaluated
  /\ IsNone(indicator.semantic.v.threshold)
  /\ Len(SemanticValues) = 2
  /\ ScoreOf(1) = Ok(69)
  /\ ScoreOf(2) = Ok(70)
  /\ Len(evaluator_calls.semantic) = 2
  /\ indicator_verdict.v.result = "matched"

\* ------------------------------------------------------------------------
\* Properties of evaluate_condition
\* ------------------------------------------------------------------------

\* The operator set with the one numeric operator op at threshold b.
OnlyGt(b) == Operators([NoOperators EXCEPT !.gt = Some(b)])
OnlyLte(b) == Operators([NoOperators EXCEPT !.lte = Some(b)])
OnlyLt(b) == Operators([NoOperators EXCEPT !.lt = Some(b)])
OnlyGte(b) == Operators([NoOperators EXCEPT !.gte = Some(b)])

\* C16: on a numeric subject a, for every threshold b, exactly one of
\* {gt: b} and {lte: b} passes and exactly one of {lt: b} and {gte: b}
\* passes.
C16_StrictComplements ==
  (IsSome(returned) /\ IsSome(condition) /\ value.k = "num") =>
    \A b \in Thresholds :
      /\ condition.v = OnlyGt(b) =>
           returned.v # evaluate_condition(OnlyLte(b), value)
      /\ condition.v = OnlyLte(b) =>
           returned.v # evaluate_condition(OnlyGt(b), value)
      /\ condition.v = OnlyLt(b) =>
           returned.v # evaluate_condition(OnlyGte(b), value)
      /\ condition.v = OnlyGte(b) =>
           returned.v # evaluate_condition(OnlyLt(b), value)

\* C16 witness: the subject equals the threshold, {lte: 2} has passed on 2,
\* and {gt: 2} fails on it.
C16_Witness ==
  /\ condition = Some(OnlyLte(F64(2)))
  /\ value = VNum(2)
  /\ returned = Some(TRUE)
  /\ ~evaluate_condition(OnlyGt(F64(2)), value)

\* Equality of two values by kind and content, numbers by their exact
\* numeric value hi * 2^53 + n whether written as integer or float.
RECURSIVE SameValue(_, _)
SameValue(a, b) ==
  IF a.k # b.k THEN FALSE
  ELSE IF a.k = "num" THEN a.hi = b.hi /\ a.n = b.n
  ELSE IF a.k = "arr"
  THEN /\ Len(a.a) = Len(b.a)
       /\ \A i \in 1..Len(a.a) : SameValue(a.a[i], b.a[i])
  ELSE IF a.k = "obj"
  THEN /\ DOMAIN a.o = DOMAIN b.o
       /\ \A key \in DOMAIN a.o : SameValue(a.o[key], b.o[key])
  ELSE a = b

\* The condition is the operator set {any_of: list} and nothing else.
OnlyAnyOf ==
  /\ condition.v.cond = "operators"
  /\ IsSome(condition.v.ops.any_of)
  /\ condition.v.ops = [NoOperators EXCEPT !.any_of = condition.v.ops.any_of]

\* C17: an equality condition passes iff subject and expected value are
\* equal by kind and content, numbers by numeric value; any_of passes iff
\* the subject equals some member in that sense; and {any_of: [x]} gives
\* what the bare equality x gives.
C17_DeepEquality ==
  (IsSome(returned) /\ IsSome(condition)) =>
    /\ condition.v.cond = "equality" =>
         returned.v = SameValue(value, condition.v.expected)
    /\ OnlyAnyOf =>
         LET list == condition.v.ops.any_of.v
         IN /\ returned.v = (\E i \in 1..Len(list) : SameValue(value, list[i]))
            /\ Len(list) = 1 =>
                 returned.v = evaluate_condition(Equality(list[1]), value)

\* What holds of equality whatever the numbers: C17 on subjects below 2^53,
\* and {any_of: [x]} against the bare equality x on every subject.
DeepEquality_BelowTwo53 ==
  (IsSome(returned) /\ IsSome(condition)) =>
    /\ (condition.v.cond = "equality" /\ ~(value.k = "num" /\ value.hi = 1)) =>
         returned.v = SameValue(value, condition.v.expected)
    /\ OnlyAnyOf =>
         LET list == condition.v.ops.any_of.v
         IN /\ ~(value.k = "num" /\ value.hi = 1) =>
                 returned.v = (\E i \in 1..Len(list) : SameValue(value, list[i]))
            /\ returned.v =
                 (\E i \in 1..Len(list) :
                    evaluate_condition(Equality(list[i]), value))

\* The operators of a MatchCondition other than exists.
StringOperators == {"contains", "starts_with", "ends_with", "regex"}
NumericOperators == {"gt", "lt", "gte", "lte"}
OperatorNames == StringOperators \cup NumericOperators \cup {"any_of"}

\* The operators present in the operator set c, and c cut down to one of them.
PresentOperators(c) == {op \in OperatorNames : IsSome(c[op])}
OnlyOperator(c, op) == Operators([NoOperators EXCEPT ![op] = c[op]])

\* C18: on an operator set the result is true iff every present operator,
\* taken alone, passes; a string operator fails on a non-string, regex fails
\* on an invalid pattern, a numeric comparison fails on a non-number; the
\* empty operator set is true; and exists, whatever its value, changes
\* nothing.
C18_OperatorConjunction ==
  (IsSome(returned) /\ IsSome(condition) /\ condition.v.cond = "operators") =>
    LET c == condition.v.ops
    IN /\ returned.v =
            (\A op \in PresentOperators(c) :
               evaluate_condition(OnlyOperator(c, op), value))
       /\ (PresentOperators(c) \cap StringOperators # {} /\ value.k # "str") =>
            returned.v = FALSE
       /\ c.regex = Some(<<"(">>) => returned.v = FALSE
       /\ (PresentOperators(c) \cap NumericOperators # {} /\ value.k # "num") =>
            returned.v = FALSE
       /\ PresentOperators(c) = {} => returned.v = TRUE
       /\ \A ex \in {None, Some(TRUE), Some(FALSE)} :
            returned.v =
              evaluate_condition(Operators([c EXCEPT !.exists = ex]), value)

\* C18 witness: {contains: "x", gt: 1, exists: false} on the string "x":
\* contains passes, gt fails on a non-number, and the result is false.
C18_Witness ==
  /\ IsSome(condition)
  /\ condition.v =
       Operators([NoOperators EXCEPT !.contains = Some(TextX),
                                     !.gt = Some(F64(1)),
                                     !.exists = Some(FALSE)])
  /\ value = VStr(TextX)
  /\ evaluate_condition(OnlyOperator(condition.v.ops, "contains"), value)
  /\ returned = Some(FALSE)

\* ------------------------------------------------------------------------
\* Properties of evaluate_predicate
\* ------------------------------------------------------------------------

\* What C15 says of the Condition entry with operator set c at the path p.
EntryAsClaimed(p, c) ==
  LET resolved == resolve_simple_path(p, value)
      remaining == [c EXCEPT !.exists = None]
  IN IF c.exists = Some(FALSE)
     THEN IF remaining = NoOperators THEN IsNone(resolved) ELSE FALSE
     ELSE /\ IsSome(resolved)
          /\ evaluate_condition(Operators(remaining), resolved.v)

\* Every entry of the predicate is a Condition entry.
OnlyConditionEntries ==
  \A p \in DOMAIN predicate.v : predicate.v[p].entry = "condition"

\* C15: a predicate of Condition entries is true iff each entry is, and an
\* entry is true: with exists: false alone, iff the path does not resolve;
\* with exists: false and another operator, never; with exists: true, iff
\* the path resolves and the operators but exists pass; with no exists, iff
\* the path resolves and all operators pass. A path that leads to null
\* resolves.
C15_ExistsSemantics ==
  (IsSome(returned) /\ IsSome(predicate) /\ OnlyConditionEntries) =>
    /\ returned.v =
         (\A p \in DOMAIN predicate.v : EntryAsClaimed(p, predicate.v[p].cond))
    /\ (value = VObj(KeyA :> VNull) /\ DOMAIN predicate.v = {KeyA}) =>
         /\ predicate.v[KeyA].cond = [NoOperators EXCEPT !.exists = Some(TRUE)]
              => returned.v = TRUE
         /\ predicate.v[KeyA].cond = [NoOperators EXCEPT !.exists = Some(FALSE)]
              => returned.v = FALSE

\* C15 witness: the one entry a: {exists: false, contains: "x"} on the
\* value {}: the path does not resolve, and the predicate is false.
C15_Witness ==
  /\ predicate =
       Some(KeyA :> Condition([NoOperators EXCEPT !.exists = Some(FALSE),
                                                  !.contains = Some(TextX)]))
  /\ value = VObj(EmptyMap)
  /\ IsNone(resolve_simple_path(KeyA, value))
  /\ returned = Some(FALSE)

\* ------------------------------------------------------------------------
\* Properties of path resolution
\* ------------------------------------------------------------------------

\* The nested trees of the model: the field names along which they nest.
NestedNames == UNION {NameSeqs(n) : n \in 0..MaxDepth}

\* C19: on the tree nested along the field names of a dot-path p with leaf
\* v, resolve_simple_path gives Some(v) and resolve_wildcard_path gives
\* [v]; the path one segment deeper gives None and the empty list; the
\* empty path gives the root; and resolve_simple_path resolves only through
\* objects that have the next key: a missing key, an array or any other
\* non-object on the way gives None.
C19_PathRoundTrip ==
  (IsSome(returned) /\ IsSome(path)) =>
    /\ \A names \in NestedNames : \A leaf \in Leaves :
         value = Nest(names, leaf) =>
           /\ path.v = JoinDots(names) =>
                /\ returned.v.simple = Some(leaf)
                /\ returned.v.wildcard = <<leaf>>
           /\ \A f \in FieldNames :
                path.v = JoinDots(Append(names, f)) =>
                  /\ returned.v.simple = None
                  /\ returned.v.wildcard = << >>
    /\ path.v = << >> =>
         /\ returned.v.simple = Some(value)
         /\ returned.v.wildcard = <<value>>
    /\ (path.v # << >> /\ IsSome(returned.v.simple)) =>
         LET segs == SplitOn(path.v, ".")
         IN \A k \in 1..Len(segs) :
              LET before == resolve_simple_path(JoinDots(SubSeq(segs, 1, k - 1)),
                                                value)
              IN /\ IsSome(before)
                 /\ before.v.k = "obj"
                 /\ segs[k] \in DOMAIN before.v.o

\* C19 witness: the path a.ab on {"a": {"ab": 1}} has given Some(1) and [1].
C19_Witness ==
  /\ path = Some(<<"a", ".", "a", "b">>)
  /\ value = Nest(<<KeyA, <<"a", "b">>>>, VNum(1))
  /\ returned = Some([simple |-> Some(VNum(1)), wildcard |-> <<VNum(1)>>])

\* What the value v contributes under the segment f (star FALSE) or f[*]
\* (star TRUE).
Contribution(f, star, v) ==
  IF v.k # "obj" THEN << >>
  ELSE IF f \notin DOMAIN v.o THEN << >>
  ELSE IF ~star THEN <<v.o[f]>>
  ELSE IF v.o[f].k = "arr" THEN v.o[f].a
  ELSE << >>

\* The concatenation of a sequence of sequences, in order.
RECURSIVE Concat(_)
Concat(seqs) == IF seqs = << >> THEN << >> ELSE Head(seqs) \o Concat(Tail(seqs))

\* C20: the result for a path with one more segment is the concatenation,
\* in working-set order, of what each value resolved by the path before
\* contributes: under f[*] the elements of its field f when that is an
\* array, under f its field f when it has one. So a[*] on {"a": array}
\* gives the elements of the array in order, and a[*].b gives one result
\* per element, in order, when every element is an object with field b.
C20_WildcardFanOut ==
  (IsSome(returned) /\ IsSome(path)) =>
    /\ \A pre \in WildcardPrefixes : \A f \in {KeyA, KeyB} : \A star \in BOOLEAN :
         path.v = Extend(pre, IF star THEN f \o Star ELSE f) =>
           LET before == resolve_wildcard_path(pre, value)
           IN returned.v.wildcard =
                Concat([i \in 1..Len(before) |-> Contribution(f, star, before[i])])
    /\ (value.k = "obj" /\ DOMAIN value.o = {KeyA} /\ value.o[KeyA].k = "arr") =>
         LET elems == value.o[KeyA].a
         IN /\ path.v = PathAStar => returned.v.wildcard = elems
            /\ (/\ path.v = PathAStarB
                /\ \A i \in 1..Len(elems) :
                     elems[i].k = "obj" /\ KeyB \in DOMAIN elems[i].o) =>
                 /\ Len(returned.v.wildcard) = Len(elems)
                 /\ \A i \in 1..Len(elems) :
                      returned.v.wildcard[i] = elems[i].o[KeyB]

\* C20 witness: a[*].b on {"a": [{"b": "x"}, {"b": "y"}]} has given
\* ["x", "y"].
C20_Witness ==
  /\ path = Some(PathAStarB)
  /\ value = VObj(KeyA :> VArr(<<VObj(KeyB :> VStr(TextX)),
                                 VObj(KeyB :> VStr(TextY))>>))
  /\ IsSome(returned)
  /\ returned.v.wildcard = <<VStr(TextX), VStr(TextY)>>

\* ------------------------------------------------------------------------
\* Further properties of the trigger state machine
\* ------------------------------------------------------------------------

\* The last call fully matched, with a count given and no overflow of
\* event_count at stake.
LastCountedAgainst ==
  /\ LastFullyMatched
  /\ IsSome(trigger.count)
  /\ last.before # U64_MAX

\* C30: for every signed count c a fully matching event returns
\* Advanced(event_matched) iff the incremented event_count is >= c as
\* integers; a trigger with c <= 1 advances on its first fully matching
\* event.
C30_SignedThreshold ==
  LastCountedAgainst =>
    /\ last.result = Advanced("EventMatched")
         <=> AtLeast(BigSucc(last.before), trigger.count.v)
    /\ trigger.count.v <= 1 => last.result = Advanced("EventMatched")

\* What holds of the comparison: C30 for every count c >= 0, and
\* NotAdvanced for every c < 0 while event_count is below 2^64 + c.
ThresholdComparison_AsUnsigned ==
  LastCountedAgainst =>
    IF trigger.count.v >= 0
    THEN last.result = Advanced("EventMatched")
           <=> AtLeast(BigSucc(last.before), trigger.count.v)
    ELSE last.result = Advanced("EventMatched")
           <=> BigLe(I64AsU64(trigger.count.v), BigSucc(last.before))

\* ------------------------------------------------------------------------
\* Further properties of path resolution
\* ------------------------------------------------------------------------

\* The characters of a segment: alphanumerics, `_` and `-` (of which the
\* model's texts use lower-case letters and digits).
SegmentChars ==
  {"a", "b", "c", "d", "e", "f", "g", "h", "i", "j", "k", "l", "m", "n", "o",
   "p", "q", "r", "s", "t", "u", "v", "w", "x", "y", "z", "0", "1", "2", "3",
   "4", "5", "6", "7", "8", "9", "_", "-"}

\* The path has a `[` that is not immediately followed by `*]`; numeric and
\* negative indexes are of this kind.
BracketWithoutStar(p) ==
  \E i \in 1..Len(p) :
    /\ p[i] = "["
    /\ ~(i + 2 <= Len(p) /\ p[i + 1] = "*" /\ p[i + 2] = "]")

LeadingDot(p) == p # << >> /\ p[1] = "."

\* A `[*]` with no field name before it.
StarBeforeAnyName(p) == Len(p) >= 3 /\ SubSeq(p, 1, 3) = Star

\* A segment character that is neither an alphanumeric nor `_` nor `-`.
ForeignCharacter(p) ==
  \E i \in 1..Len(p) : p[i] \notin SegmentChars \cup {".", "[", "*", "]"}

\* The path is malformed in one of the ways C21 names.
MalformedAsClaimed ==
  \/ BracketWithoutStar(path.v)
  \/ LeadingDot(path.v)
  \/ StarBeforeAnyName(path.v)
  \/ ForeignCharacter(path.v)

\* C21: on a malformed path resolve_wildcard_path returns the empty list,
\* whatever the value tree: a `[` not immediately followed by `*]` (so any
\* numeric or negative index), a leading `.`, a `[*]` before any field
\* name, a character other than alphanumerics, `_` and `-` in a segment.
C21_MalformedPathIsEmpty ==
  (IsSome(returned) /\ IsSome(path) /\ MalformedAsClaimed) =>
    returned.v.wildcard = << >>

\* A `[*]` followed by something other than `.` or the end of the path.
StarThenText ==
  \E i \in 1..Len(path.v) :
    /\ i + 3 <= Len(path.v)
    /\ SubSeq(path.v, i, i + 2) = Star
    /\ path.v[i + 3] # "."

\* What holds of malformed paths: the empty list for a `[` not immediately
\* followed by `*]`, for a leading `.`, and for a `[*]` followed by anything
\* but `.` or the end.
MalformedPath_RejectedBySplitter ==
  (/\ IsSome(returned) /\ IsSome(path)
   /\ (BracketWithoutStar(path.v) \/ LeadingDot(path.v) \/ StarThenText)) =>
    returned.v.wildcard = << >>

\* C27: on a non-empty path with no `[`, resolve_wildcard_path gives [v]
\* when resolve_simple_path gives Some(v), and the empty list when it gives
\* None.
C27_WildcardLikeSimple ==
  (/\ IsSome(returned) /\ IsSome(path) /\ path.v # << >>
   /\ \A i \in 1..Len(path.v) : path.v[i] # "[") =>
    returned.v.wildcard =
      IF IsSome(returned.v.simple) THEN <<returned.v.simple.v>> ELSE << >>

\* Every segment between the dots of p is a non-empty string of segment
\* characters.
WellFormedPlainPath(p) ==
  /\ p # << >>
  /\ \A i \in 1..Len(p) : p[i] \in SegmentChars \cup {"."}
  /\ p[1] # "."
  /\ p[Len(p)] # "."
  /\ \A i \in 1..(Len(p) - 1) : ~(p[i] = "." /\ p[i + 1] = ".")

\* What holds of C27: the two resolvers agree on every path whose segments
\* are non-empty strings of segment characters.
WildcardLikeSimple_WellFormed ==
  (IsSome(returned) /\ IsSome(path) /\ WellFormedPlainPath(path.v)) =>
    returned.v.wildcard =
      IF IsSome(returned.v.simple) THEN <<returned.v.simple.v>> ELSE << >>

\* ------------------------------------------------------------------------
\* Properties of parse_duration
\* ------------------------------------------------------------------------

\* A digit string, and the number it denotes.
DigitString(str) == str # << >> /\ \A i \in 1..Len(str) : IsDigitChar(str[i])
ValueOf(str) == StripZeros([i \in 1..Len(str) |-> DigitOf(str[i])])

\* How many digits the string starts with.
LeadingDigits(str) ==
  IF \E i \in 1..Len(str) : ~IsDigitChar(str[i])
  THEN (CHOOSE i \in 1..Len(str) :
          ~IsDigitChar(str[i]) /\ \A j \in 1..(i - 1) : IsDigitChar(str[j])) - 1
  ELSE Len(str)

\* The string starts with <digits><designator>.
HasComponent(str, designator) ==
  LET n == LeadingDigits(str)
  IN n >= 1 /\ n < Len(str) /\ str[n + 1] = designator

\* The string after its leading <digits><designator>, if it has one, and the
\* seconds that component denotes.
AfterComponent(str, designator) ==
  IF HasComponent(str, designator)
  THEN SubSeq(str, LeadingDigits(str) + 2, Len(str)) ELSE str
ComponentSeconds(str, designator, factor) ==
  IF HasComponent(str, designator)
  THEN BigMul(ValueOf(SubSeq(str, 1, LeadingDigits(str))), factor) ELSE <<0>>

\* The shorthand grammar <digits><unit>, unit in {s, m, h, d}.
InShorthandGrammar(str) ==
  /\ Len(str) >= 2
  /\ DigitString(SubSeq(str, 1, Len(str) - 1))
  /\ str[Len(str)] \in {"s", "m", "h", "d"}

\* The parts of an ISO input after its P: before the first T, and after it.
IsoDatePart(str) ==
  LET rest == Tail(str)
  IN IF FindChar(rest, "T") = 0 THEN rest
     ELSE SubSeq(rest, 1, FindChar(rest, "T") - 1)
IsoHasT(str) == FindChar(Tail(str), "T") # 0
IsoTimePart(str) ==
  LET rest == Tail(str)
  IN SubSeq(rest, FindChar(rest, "T") + 1, Len(rest))

\* The ISO grammar P[<n>D][T[<n>H][<n>M][<n>S]] with at least one
\* component, and at least one time component after a T.
InIsoGrammar(str) ==
  /\ str # << >>
  /\ str[1] = "P"
  /\ AfterComponent(IsoDatePart(str), "D") = << >>
  /\ IsoHasT(str) =>
       /\ IsoTimePart(str) # << >>
       /\ AfterComponent(AfterComponent(AfterComponent(IsoTimePart(str), "H"),
                                        "M"), "S") = << >>
  /\ IsoDatePart(str) # << >> \/ IsoHasT(str)

\* The number of seconds a syntactically valid input denotes.
DenotedSeconds(str) ==
  IF InShorthandGrammar(str)
  THEN BigMul(ValueOf(SubSeq(str, 1, Len(str) - 1)),
              CASE str[Len(str)] = "s" -> 1 [] str[Len(str)] = "m" -> 60
                [] str[Len(str)] = "h" -> 3600 [] OTHER -> 86400)
  ELSE LET t0 == IF IsoHasT(str) THEN IsoTimePart(str) ELSE << >>
           t1 == AfterComponent(t0, "H")
           t2 == AfterComponent(t1, "M")
       IN BigAdd(BigAdd(ComponentSeconds(IsoDatePart(str), "D", 86400),
                        ComponentSeconds(t0, "H", 3600)),
                 BigAdd(ComponentSeconds(t1, "M", 60),
                        ComponentSeconds(t2, "S", 1)))

\* A small natural number as a component value, 0 when absent.
ComponentValue(c) == IF IsNone(c) THEN 0 ELSE c.v

\* C22: for every magnitude n, {n}s / {n}m / {n}h / {n}d and PT{n}S /
\* PT{n}M / PT{n}H / P{n}D parse to the same result, which is n times 1, 60,
\* 3600, 86400 seconds when that fits; and P{d}DT{h}H{m}M{s}S with any
\* non-empty subset of its components present parses to
\* 86400d + 3600h + 60m + s seconds.
C22_GrammarsAgree ==
  (IsSome(returned) /\ IsSome(arguments)) =>
    /\ \A n \in Magnitudes : \A u \in 1..4 :
         LET seconds == BigMul(ValueOf(n), UnitMultipliers[u])
         IN /\ arguments.v.input = ShorthandText(n, u) =>
                 /\ returned.v = parse_duration(IsoText(n, u))
                 /\ BigLe(seconds, U64_MAX) => returned.v = Ok(from_secs(seconds))
            /\ arguments.v.input = IsoText(n, u) =>
                 /\ returned.v = parse_duration(ShorthandText(n, u))
                 /\ BigLe(seconds, U64_MAX) => returned.v = Ok(from_secs(seconds))
    /\ \A d \in ComponentChoices, h \in ComponentChoices,
          m \in ComponentChoices, sec \in ComponentChoices :
         (/\ arguments.v.input = CombinedText(d, h, m, sec)
          /\ <<d, h, m, sec>> # <<None, None, None, None>>) =>
           returned.v =
             Ok(from_secs(BigFromNat(86400 * ComponentValue(d)
                                     + 3600 * ComponentValue(h)
                                     + 60 * ComponentValue(m)
                                     + ComponentValue(sec))))

\* C22 witness: P1DT2H1M2S has parsed to 93662 seconds.
C22_Witness ==
  /\ arguments = Some([input |-> CombinedText(Some(1), Some(2), Some(1), Some(2))])
  /\ returned = Some(Ok(from_secs(<<9, 3, 6, 6, 2>>)))

\* The inputs C23 names as errors: empty, P, PT, P1DT, components out of
\* order or repeated, number parts that are not plain digits.
NamedBadInputs ==
  {<< >>, <<"P">>, <<"P", "T">>, <<"P", "1", "D", "T">>,
   <<"P", "T", "1", "M", "1", "H">>, <<"P", "T", "1", "S", "1", "M">>,
   <<"P", "T", "1", "H", "1", "H">>, <<"P", "1", "D", "1", "D">>,
   <<"+", "5", "s">>, <<"-", "5", "s">>, <<"1", ".", "5", "s">>,
   <<"P", "T", "+", "5", "S">>, <<"P", "T", "1", ".", "5", "S">>}

\* C23: parse_duration returns an error for every input that is in neither
\* grammar, the named ones among them.
C23_OutsideGrammarIsError ==
  (IsSome(returned) /\ IsSome(arguments)) =>
    /\ returned.v.ok =>
         InShorthandGrammar(arguments.v.input) \/ InIsoGrammar(arguments.v.input)
    /\ arguments.v.input \in NamedBadInputs => ~returned.v.ok

\* The input with its `+` signs taken out.
RECURSIVE WithoutPlus(_)
WithoutPlus(str) ==
  IF str = << >> THEN << >>
  ELSE IF Head(str) = "+" THEN WithoutPlus(Tail(str))
  ELSE <<Head(str)>> \o WithoutPlus(Tail(str))

\* What holds of C23: an accepted input is in one of the grammars once the
\* `+` signs that str::parse lets through are taken out, and the named
\* inputs without a `+` are errors.
OutsideGrammarIsError_UpToPlus ==
  (IsSome(returned) /\ IsSome(arguments)) =>
    /\ returned.v.ok =>
         \/ InShorthandGrammar(WithoutPlus(arguments.v.input))
         \/ InIsoGrammar(WithoutPlus(arguments.v.input))
    /\ (/\ arguments.v.input \in NamedBadInputs
        /\ \A i \in 1..Len(arguments.v.input) : arguments.v.input[i] # "+") =>
         ~returned.v.ok

\* C24: on a syntactically valid input the result is an error when the
\* seconds it denotes do not fit u64, and exactly that many whole seconds
\* when they do.
C24_NoWrapAround ==
  (/\ IsSome(returned) /\ IsSome(arguments)
   /\ InShorthandGrammar(arguments.v.input) \/ InIsoGrammar(arguments.v.input)) =>
    IF BigLt(U64_MAX, DenotedSeconds(arguments.v.input))
    THEN ~returned.v.ok
    ELSE returned.v = Ok(from_secs(DenotedSeconds(arguments.v.input)))

\* C24 witness: P213503982334601DT6H59M76S denotes 2^64 seconds, one more
\* than fits, and has given an error.
C24_Witness ==
  /\ arguments = Some([input |-> <<"P", "2", "1", "3", "5", "0", "3", "9", "8", "2", "3", "3", "4", "6", "0", "1", "D", "T", "6", "H", "5", "9", "M", "7", "6", "S">>])
  /\ DenotedSeconds(arguments.v.input) = BigSucc(U64_MAX)
  /\ IsSome(returned)
  /\ ~returned.v.ok

\* ------------------------------------------------------------------------
\* Properties of compute_effective_state
\* ------------------------------------------------------------------------

\* The (0-based) indexes up to phase_index of the phases that define a state.
DefiningPhases ==
  {i \in 0..(Len(arguments.v.phases) - 1) :
     i <= arguments.v.phase_index /\ IsSome(arguments.v.phases[i + 1].state)}

\* C29: the result is the state of the last phase with index <= phase_index
\* that defines a state, null when there is none; the phases after
\* phase_index do not matter; and a phase_index past the end gives what the
\* index of the last phase gives.
C29_StateInheritance ==
  (IsSome(returned) /\ IsSome(arguments)) =>
    LET phases == arguments.v.phases
        phase_index == arguments.v.phase_index
    IN /\ returned.v =
            IF DefiningPhases = {} THEN VNull
            ELSE LET last_defining ==
                       CHOOSE i \in DefiningPhases : \A j \in DefiningPhases : j <= i
                 IN phases[last_defining + 1].state.v
       /\ \A later \in PhaseLists :
            Len(later) = Len(phases) =>
              ((\A i \in 1..Len(phases) : i - 1 <= phase_index => later[i] = phases[i])
                 => returned.v = compute_effective_state(later, phase_index))
       /\ (phases # << >> /\ phase_index >= Len(phases)) =>
            returned.v = compute_effective_state(phases, Len(phases) - 1)

\* C29 witness: phases [state A, no state, state B] at phase_index 1: the
\* state of phase 0 is inherited, and phase 2 is not looked at.
C29_Witness ==
  /\ arguments =
       Some([phases |-> <<[state |-> Some(VObj(KeyA :> VNum(1)))],
                          [state |-> None],
                          [state |-> Some(VObj(KeyB :> VNum(2)))]>>,
             phase_index |-> 1])
  /\ returned = Some(VObj(KeyA :> VNum(1)))

\* ------------------------------------------------------------------------
\* Properties of select_response
\* ------------------------------------------------------------------------

\* The positions of the entries whose `when` passes on the request, and of
\* those that have no `when`.
PassingEntries ==
  {i \in 1..Len(arguments.v.entries) :
     /\ IsSome(arguments.v.entries[i].when)
     /\ evaluate_predicate(arguments.v.entries[i].when.v, arguments.v.request)}
DefaultEntries ==
  {i \in 1..Len(arguments.v.entries) : IsNone(arguments.v.entries[i].when)}

\* The least position of a non-empty set of positions.
FirstOf(positions) == CHOOSE i \in positions : \A j \in positions : i <= j

\* C28: select_response returns the first entry whose `when` passes, also
\* when an entry without `when` comes before it; when no `when` passes, the
\* first entry without `when`; and nothing when there is none.
C28_FirstMatchWins ==
  (IsSome(returned) /\ IsSome(arguments)) =>
    returned.v = IF PassingEntries # {} THEN Some(FirstOf(PassingEntries))
                 ELSE IF DefaultEntries # {} THEN Some(FirstOf(DefaultEntries))
                 ELSE None

\* C28 witness: on [no when, a == "y", a == "x"] and the request
\* {"a": "x"} the third entry is returned, not the default before it.
C28_Witness ==
  /\ IsSome(arguments)
  /\ arguments.v.entries = <<[when |-> None],
                             [when |-> Some(KeyA :> Scalar(VStr(TextY)))],
                             [when |-> Some(KeyA :> Scalar(VStr(TextX)))]>>
  /\ arguments.v.request = VObj(KeyA :> VStr(TextX))
  /\ returned = Some(Some(3))

\* ------------------------------------------------------------------------
\* Properties of interpolate_template
\* ------------------------------------------------------------------------

\* What a reference resolves to as the documentation orders it: the
\* extractor table, then the request, then the response; nothing and one
\* warning naming the reference when none of them has it.
DocumentedResolution(expr, table, rq, rs) ==
  LET unresolved == [text |-> << >>,
                     diagnostics |-> <<w004_diagnostic(expr)>>]
      InMessage(prefix, msg) ==
        IF IsNone(msg) THEN unresolved
        ELSE LET v == resolve_simple_path(
                        SubSeq(expr, Len(prefix) + 1, Len(expr)), msg.v)
             IN IF IsNone(v) THEN unresolved
                ELSE [text |-> value_to_string(v.v), diagnostics |-> << >>]
  IN IF expr \in DOMAIN table
     THEN [text |-> table[expr], diagnostics |-> << >>]
     ELSE IF StartsWith(expr, RequestPrefix)
     THEN InMessage(RequestPrefix, rq)
     ELSE IF StartsWith(expr, ResponsePrefix)
     THEN InMessage(ResponsePrefix, rs)
     ELSE unresolved

\* The documented reading of a template, left to right: an escaped opening
\* is the two braces; an opening with a closing after it is a span, replaced
\* by its resolution; an opening with no closing after it is itself; any
\* other character is itself. `inside` tells whether an escaped opening
\* stood inside a span.
RECURSIVE DocumentedReading(_, _, _, _)
DocumentedReading(t, table, rq, rs) ==
  IF t = << >>
  THEN [text |-> << >>, diagnostics |-> << >>, inside |-> FALSE]
  ELSE IF StartsWith(t, EscapedOpen)
  THEN LET rest == DocumentedReading(SubSeq(t, 4, Len(t)), table, rq, rs)
       IN [rest EXCEPT !.text = OpenBraces \o @]
  ELSE IF StartsWith(t, OpenBraces)
  THEN LET after_open == SubSeq(t, 3, Len(t))
           end == str_find(after_open, CloseBraces)
       IN IF IsNone(end)
          THEN LET rest == DocumentedReading(after_open, table, rq, rs)
               IN [rest EXCEPT !.text = OpenBraces \o @]
          ELSE LET expr == SubSeq(after_open, 1, end.v - 1)
                   resolved == DocumentedResolution(expr, table, rq, rs)
                   rest == DocumentedReading(
                             SubSeq(after_open, end.v + 2, Len(after_open)),
                             table, rq, rs)
               IN [text |-> resolved.text \o rest.text,
                   diagnostics |-> resolved.diagnostics \o rest.diagnostics,
                   inside |-> rest.inside
                              \/ IsSome(str_find(expr, EscapedOpen))]
  ELSE LET rest == DocumentedReading(Tail(t), table, rq, rs)
       IN [rest EXCEPT !.text = <<Head(t)>> \o @]

\* The documented reading of the arguments of the call.
ArgumentsReading ==
  DocumentedReading(arguments.v.template, arguments.v.extractors,
                    arguments.v.request, arguments.v.response)

\* C25: an escaped opening comes out as two literal braces and opens no
\* span, a span is replaced by its resolution (extractor table, request,
\* response), an unresolved reference leaves nothing and exactly one
\* warning naming it, and an unterminated opening passes through with no
\* diagnostic: the text and the diagnostics returned are those of the
\* documented reading, for every template.
C25_TemplateBraces ==
  (IsSome(arguments) /\ IsSome(returned) /\ "template" \in DOMAIN arguments.v)
    => /\ returned.v.text = ArgumentsReading.text
       /\ returned.v.diagnostics = ArgumentsReading.diagnostics

\* What holds instead: the same, for the templates in which no escaped
\* opening stands between an opening and its closing.
TemplateBraces_EscapesOutsideSpans ==
  (IsSome(arguments) /\ IsSome(returned) /\ "template" \in DOMAIN arguments.v
   /\ ~ArgumentsReading.inside)
    => /\ returned.v.text = ArgumentsReading.text
       /\ returned.v.diagnostics = ArgumentsReading.diagnostics

\* A call whose template has an escaped opening outside every span, a
\* resolved span and an unresolved one.
TemplateBraces_Witness ==
  /\ IsSome(arguments) /\ IsSome(returned)
  /\ "template" \in DOMAIN arguments.v
  /\ ~ArgumentsReading.inside
  /\ IsSome(str_find(arguments.v.template, EscapedOpen))
  /\ returned.v.diagnostics # << >>
  /\ IsSome(str_find(returned.v.text, <<"q">>))

\* ------------------------------------------------------------------------
\* Properties of normalize
\* ------------------------------------------------------------------------

\* The second call has returned.
NormalizedTwice ==
  /\ IsSome(arguments) /\ "doc" \in DOMAIN arguments.v
  /\ IsSome(returned) /\ returned.v.calls = 2

\* C26: normalize is idempotent: normalizing a normalized document returns
\* it unchanged, whatever the form of the document normalized first.
C26_NormalizeIdempotent ==
  NormalizedTwice => returned.v.doc = returned.v.previous

\* A single-phase document with a scalar severity and an indicator with a
\* shorthand pattern, which the first call changed, normalized twice.
C26_Witness ==
  /\ NormalizedTwice
  /\ IsSome(arguments.v.doc.attack.execution.state)
  /\ IsNone(arguments.v.doc.attack.execution.actors)
  /\ IsSome(arguments.v.doc.attack.severity)
  /\ arguments.v.doc.attack.severity.v.form = "scalar"
  /\ IsSome(arguments.v.doc.attack.indicators)
  /\ \E i \in 1..Len(arguments.v.doc.attack.indicators.v) :
       /\ IsSome(arguments.v.doc.attack.indicators.v[i].pattern)
       /\ is_shorthand(arguments.v.doc.attack.indicators.v[i].pattern.v)
  /\ returned.v.doc # arguments.v.doc
  /\ IsSome(returned.v.doc.attack.execution.actors)

====
